---- MODULE Spec2Model ----
(***************************************************************************)
(* Signal-generation pipeline of market-sentiment-analyzer:                *)
(*   lexicon scorer        src/sentiment_analyzer.py                       *)
(*   fundamentals evaluator src/financial_metrics.py                       *)
(*   signal combiner       src/lambda-package/sentiment_analyzer.py        *)
(*                                                                         *)
(* Numbers are fixed-point integers in hundredths: a sentiment score of    *)
(* 0.15 is 15, a price change of 2.0 percent is 200, a P/E of 15 is 1500.  *)
(* An optional value is a sequence: <<>> is Python's None (also what       *)
(* dict.get returns for a missing key) and <<v>> is the number v.          *)
(* The emoji prefix of the signal strings is left out.                     *)
(***************************************************************************)
EXTENDS Integers, Sequences, FiniteSets, TLC

VARIABLES
    pc,                 \* the operation about to run ("combine"), then "combine_done"
    sentiment_score,    \* _generate_combined_signal argument
    valuation,          \* _generate_combined_signal argument (dict with 'overall')
    price_change_pct,   \* _generate_combined_signal argument (optional)
    combined_signal,    \* _generate_combined_signal return value
    metrics,            \* analyze_valuation argument (mapping of optional ratios)
    assessment,         \* analyze_valuation return value
    text,               \* simple_sentiment_score argument (sequence of characters)
    text_score,         \* simple_sentiment_score return value (a fraction)
    articles,           \* analyze_ticker: the list fetch_news returned
    analysis,           \* analyze_ticker return value
    change_pct,         \* mover classifier argument (daily percent change)
    mover_type,         \* mover classifier argument ('gainer' or 'loser')
    mover,              \* signal and sentiment of both copies of the classifier
    quotes,             \* get_all_movers result: quotes in fetch order
    top_n,              \* get_top_gainers_losers argument
    movers_data,        \* get_top_gainers_losers return value
    copy,               \* which sentiment_analyzer.py runs: "root" or "lambda-package"
    feed,               \* per ticker: what fetch_news and get_stock_fundamentals return
    results,            \* the list 'results' of generate_report (a mutable list object)
    report,             \* outcome of the report formatting: rendered sections or the error raised
    responses,          \* fetch_news: the outcome of the request for each search term
    unique_articles,    \* fetch_news return value
    environ,            \* lambda_function.lambda_handler: os.environ (the variables it reads)
    effects,            \* the calls the handler made to its collaborators, with their outcome
    s3_success,         \* local of lambda_handler: what save_to_s3 returned
    email_success,      \* local of lambda_handler: what send_email_report returned
    response,           \* lambda_handler return value
    tables,             \* fast_sp500_movers: the rows each scraped page yields
    fetched,            \* the sources the movers handler fetched, with what each returned
    fast_movers_data,   \* local movers_data of the movers handler
    fast_response,      \* return value of the movers handler
    picker_key,         \* dynamic_stock_picker: os.environ.get('ALPHAVANTAGE_KEY')
    api_response,       \* outcome of the TOP_GAINERS_LOSERS request
    stock_data,         \* local of the picker handler: get_sp500_gainers_losers result
    analysis_results,   \* local of the picker handler: analyze_stocks result
    dashboard_data,     \* what the picker handler passes to save_to_s3
    saved,              \* whether save_to_s3 was called and returned True
    picker_response     \* return value of the picker handler

vars == <<pc,
          <<sentiment_score, valuation, price_change_pct, combined_signal>>,
          <<metrics, assessment>>,
          <<text, text_score>>,
          <<articles, analysis>>,
          <<change_pct, mover_type, mover>>,
          <<quotes, top_n, movers_data>>,
          <<copy, feed, results, report>>,
          <<responses, unique_articles>>,
          <<environ, effects, s3_success, email_success, response>>,
          <<tables, fetched, fast_movers_data, fast_response>>,
          <<picker_key, api_response, stock_data, analysis_results, dashboard_data, saved,
            picker_response>>>>

None == <<>>
Some(v) == <<v>>

(***************************************************************************)
(* Bounds of the input domains.                                            *)
(***************************************************************************)
\* sentiment scores range over -1.00 .. 1.00, in hundredths
MaxSentiment == 100
\* price changes range over -3.0 .. 3.0 percent, in steps of 0.1 percent
MaxMomentumSteps == 30

SentimentScores == (0 - MaxSentiment)..MaxSentiment
MomentumValues == {Some(10 * k) : k \in (0 - MaxMomentumSteps)..MaxMomentumSteps} \cup {None}
OverallValues == {"Attractive", "Concerns", "Mixed", "Unknown"}

(***************************************************************************)
(* Lexicon scorer: simple_sentiment_score                                  *)
(*                                                                         *)
(* A text is a sequence of one-character strings.  The score is the exact  *)
(* fraction num/den that the division at the end of the function rounds.   *)
(***************************************************************************)
\* texts are concatenations of at most MaxFragments fragments
MaxFragments == 3

positive_words ==
    <<<<"s", "u", "r", "g", "e">>,
      <<"s", "o", "a", "r">>,
      <<"g", "a", "i", "n">>,
      <<"p", "r", "o", "f", "i", "t">>,
      <<"g", "r", "o", "w", "t", "h">>,
      <<"b", "u", "l", "l", "i", "s", "h">>,
      <<"r", "a", "l", "l", "y">>,
      <<"b", "e", "a", "t">>,
      <<"e", "x", "c", "e", "e", "d">>,
      <<"s", "t", "r", "o", "n", "g">>,
      <<"p", "o", "s", "i", "t", "i", "v", "e">>,
      <<"u", "p", "g", "r", "a", "d", "e">>,
      <<"o", "u", "t", "p", "e", "r", "f", "o", "r", "m">>,
      <<"r", "e", "c", "o", "r", "d">>,
      <<"h", "i", "g", "h">>,
      <<"b", "r", "e", "a", "k", "t", "h", "r", "o", "u", "g", "h">>,
      <<"i", "n", "n", "o", "v", "a", "t", "i", "o", "n">>,
      <<"s", "u", "c", "c", "e", "s", "s">>,
      <<"r", "i", "s", "e">>,
      <<"j", "u", "m", "p">>,
      <<"b", "o", "o", "s", "t">>,
      <<"m", "o", "m", "e", "n", "t", "u", "m">>,
      <<"o", "p", "t", "i", "m", "i", "s", "t", "i", "c">>,
      <<"m", "i", "l", "e", "s", "t", "o", "n", "e">>,
      <<"e", "x", "p", "a", "n", "s", "i", "o", "n">>>>

negative_words ==
    <<<<"p", "l", "u", "n", "g", "e">>,
      <<"f", "a", "l", "l">>,
      <<"d", "r", "o", "p">>,
      <<"l", "o", "s", "s">>,
      <<"d", "e", "c", "l", "i", "n", "e">>,
      <<"b", "e", "a", "r", "i", "s", "h">>,
      <<"c", "r", "a", "s", "h">>,
      <<"m", "i", "s", "s">>,
      <<"w", "e", "a", "k">>,
      <<"n", "e", "g", "a", "t", "i", "v", "e">>,
      <<"d", "o", "w", "n", "g", "r", "a", "d", "e">>,
      <<"u", "n", "d", "e", "r", "p", "e", "r", "f", "o", "r", "m">>,
      <<"c", "o", "n", "c", "e", "r", "n">>,
      <<"l", "o", "w">>,
      <<"r", "i", "s", "k">>,
      <<"w", "a", "r", "n", "i", "n", "g">>,
      <<"s", "t", "r", "u", "g", "g", "l", "e">>,
      <<"d", "i", "s", "a", "p", "p", "o", "i", "n", "t", "i", "n", "g">>,
      <<"c", "u", "t">>,
      <<"s", "l", "u", "m", "p">>,
      <<"t", "r", "o", "u", "b", "l", "e">>,
      <<"p", "r", "e", "s", "s", "u", "r", "e">>,
      <<"p", "e", "s", "s", "i", "m", "i", "s", "t", "i", "c">>,
      <<"s", "e", "t", "b", "a", "c", "k">>,
      <<"l", "a", "y", "o", "f", "f">>>>

\* str.lower on the letters A..Z; every other character is kept.
LowerOf ==
    [A |-> "a", B |-> "b", C |-> "c", D |-> "d", E |-> "e", F |-> "f", G
     |-> "g", H |-> "h", I |-> "i", J |-> "j", K |-> "k", L |-> "l", M |->
     "m", N |-> "n", O |-> "o", P |-> "p", Q |-> "q", R |-> "r", S |-> "s",
     T |-> "t", U |-> "u", V |-> "v", W |-> "w", X |-> "x", Y |-> "y", Z
     |-> "z"]

lower(t) == [i \in 1..Len(t) |-> IF t[i] \in DOMAIN LowerOf THEN LowerOf[t[i]] ELSE t[i]]

\* Python's `word in text` for strings: word occurs as a contiguous substring.
Contains(word, t) ==
    \E i \in 1..(Len(t) - Len(word) + 1) : SubSeq(t, i, i + Len(word) - 1) = word

\* sum(1 for word in words if word in text)
RECURSIVE CountMatches(_, _)
CountMatches(words, t) ==
    IF words = <<>> THEN 0
    ELSE (IF Contains(Head(words), t) THEN 1 ELSE 0) + CountMatches(Tail(words), t)

Fraction(n, d) == [num |-> n, den |-> d]
Zero == Fraction(0, 1)

\* mutant: the text is not lower-cased before matching
simple_sentiment_score_no_lower(t) ==
    IF t = <<>> THEN Zero
    ELSE LET pos_count == CountMatches(positive_words, t)
             neg_count == CountMatches(negative_words, t)
             total == pos_count + neg_count
         IN  IF total = 0 THEN Zero ELSE Fraction(pos_count - neg_count, total)

\* mutant: the difference is normalised by the positive matches only
simple_sentiment_score_pos_only(t) ==
    IF t = <<>> THEN Zero
    ELSE LET lowered == lower(t)
             pos_count == CountMatches(positive_words, lowered)
             neg_count == CountMatches(negative_words, lowered)
             total == pos_count + neg_count
         IN  IF total = 0 THEN Zero
             ELSE Fraction(pos_count - neg_count, IF pos_count > 0 THEN pos_count ELSE 1)

simple_sentiment_score(t) ==
    IF t = <<>> THEN Zero
    ELSE LET lowered == lower(t)
             pos_count == CountMatches(positive_words, lowered)
             neg_count == CountMatches(negative_words, lowered)
             total == pos_count + neg_count
         IN  IF total = 0 THEN Zero ELSE Fraction(pos_count - neg_count, total)

\* Input texts: pieces of headlines, some capitalised, some only forming a
\* lexicon word when joined ("lay" + "off") or containing one ("slow").
Fragments ==
    {<<"s", "u", "r", "g", "e">>,
     <<"S", "u", "r", "g", "e">>,
     <<"p", "l", "u", "n", "g", "e">>,
     <<"c", "r", "a", "s", "h">>,
     <<"l", "a", "y">>,
     <<"o", "f", "f">>,
     <<" ">>,
     <<"g", "r", "o", "w", "t", "h">>,
     <<"P", "R", "O", "F", "I", "T">>,
     <<"s", "l", "o", "w">>}

RECURSIVE Concat(_)
Concat(fs) == IF fs = <<>> THEN <<>> ELSE Head(fs) \o Concat(Tail(fs))

FragmentTexts ==
    {Concat(fs) : fs \in UNION {[1..n -> Fragments] : n \in 0..MaxFragments}}

SurgeSurgeSurge == <<"s", "u", "r", "g", "e", " ", "s", "u", "r", "g", "e", " ", "s", "u", "r", "g", "e">>
PlungeCrashLayoff == <<"p", "l", "u", "n", "g", "e", " ", "c", "r", "a", "s", "h", " ", "l", "a", "y", "o", "f", "f">>

Texts == FragmentTexts \cup {SurgeSurgeSurge, PlungeCrashLayoff}

\* The scorer is not running while another component is exercised.
IdleScore ==
    /\ text = <<>>
    /\ text_score = Zero

(***************************************************************************)
(* Article aggregation: analyze_ticker                                     *)
(*                                                                         *)
(* Scores are exact fractions.  Comparing a quotient of two small integers *)
(* with the literal 0.2 gives the same answer in floating point as on the  *)
(* fractions, because 1/5 rounds to the literal 0.2.  The source name and  *)
(* publication date of an article are copied through and are left out.     *)
(***************************************************************************)
\* fetch_news returns up to 20 articles; lists of up to MaxArticles are drawn
MaxArticles == 6
\* [:5] of the sorted articles
TopArticles == 5

RECURSIVE Gcd(_, _)
Gcd(a, b) == IF b = 0 THEN a ELSE Gcd(b, a % b)
Abs(n) == IF n < 0 THEN 0 - n ELSE n

\* The same number in lowest terms (denominator positive).
Reduced(f) ==
    LET g == Gcd(Abs(f.num), f.den)
    IN  Fraction(f.num \div g, f.den \div g)

FracAdd(a, b) == Reduced(Fraction(a.num * b.den + b.num * a.den, a.den * b.den))
FracLess(a, b) == a.num * b.den < b.num * a.den
FracAbs(f) == Fraction(Abs(f.num), f.den)
FracNeg(f) == Fraction(0 - f.num, f.den)

\* sum(article_sentiments)
RECURSIVE SumOf(_)
SumOf(fs) == IF fs = <<>> THEN Zero ELSE FracAdd(Head(fs), SumOf(Tail(fs)))

\* round(x, 3): the nearest multiple of 0.001, a tie going to the even one.
Round3(f) ==
    LET n == f.num * 1000
        q == n \div f.den
        r == n % f.den
    IN  IF 2 * r < f.den THEN Fraction(q, 1000)
        ELSE IF 2 * r > f.den THEN Fraction(q + 1, 1000)
        ELSE IF q % 2 = 0 THEN Fraction(q, 1000) ELSE Fraction(q + 1, 1000)

\* The literal 0.2 of the article classes.
ClassThreshold == Fraction(1, 5)

\* Title and description of the articles a list is drawn from.
ArticlePool ==
    {[title |-> <<"R", "a", "l", "l", "y">>,
      description |-> <<>>],
     [title |-> <<"c", "r", "a", "s", "h">>,
      description |-> <<"l", "a", "y", "o", "f", "f">>],
     [title |-> <<"u", "p", "d", "a", "t", "e">>,
      description |-> <<>>],
     [title |-> <<"s", "u", "r", "g", "e", " ", "g", "a", "i", "n", " ", "r", "i", "s", "e">>,
      description |-> <<"f", "a", "l", "l", " ", "c", "u", "t">>],
     [title |-> <<"f", "a", "l", "l", " ", "c", "u", "t", " ", "d", "r", "o", "p">>,
      description |-> <<"g", "a", "i", "n", " ", "r", "i", "s", "e">>]}

\* f"{title} {description}"
ArticleText(a) == a.title \o <<" ">> \o a.description

\* simple_sentiment_score of the text of every pool article (evaluated once).
PoolScore == [c \in ArticlePool |-> simple_sentiment_score(ArticleText(c))]

ScoreArticle(a) == PoolScore[[title |-> a.title, description |-> a.description]]

\* fetch_news output: articles with pairwise different URLs (the URL is the
\* position in fetch order).
ArticlesFrom(c) ==
    [i \in 1..Len(c) |-> [title |-> c[i].title, description |-> c[i].description, url |-> i]]

IsPositive(s) == FracLess(ClassThreshold, s)
IsNegative(s) == FracLess(s, FracNeg(ClassThreshold))
IsNeutral(s) == ~FracLess(s, FracNeg(ClassThreshold)) /\ ~FracLess(ClassThreshold, s)

\* sum(1 for s in article_sentiments if ...)
PositiveCount(fs) == Cardinality({i \in 1..Len(fs) : IsPositive(fs[i])})
NeutralCount(fs) == Cardinality({i \in 1..Len(fs) : IsNeutral(fs[i])})
NegativeCount(fs) == Cardinality({i \in 1..Len(fs) : IsNegative(fs[i])})

\* mutant: an article is put in front of the articles of equal absolute score
RECURSIVE InsertByAbsUnstable(_, _)
InsertByAbsUnstable(sorted, x) ==
    IF sorted = <<>> THEN <<x>>
    ELSE IF FracLess(FracAbs(Head(sorted).sentiment), FracAbs(x.sentiment))
            \/ FracAbs(Head(sorted).sentiment) = FracAbs(x.sentiment)
         THEN <<x>> \o sorted
         ELSE <<Head(sorted)>> \o InsertByAbsUnstable(Tail(sorted), x)

\* One step of the stable descending sort: x goes behind every element whose
\* key is at least its own.
RECURSIVE InsertByAbs(_, _)
InsertByAbs(sorted, x) ==
    IF sorted = <<>> THEN <<x>>
    ELSE IF FracLess(FracAbs(Head(sorted).sentiment), FracAbs(x.sentiment))
         THEN <<x>> \o sorted
         ELSE <<Head(sorted)>> \o InsertByAbs(Tail(sorted), x)

\* sorted(analyzed_articles, key=lambda x: abs(x['sentiment']), reverse=TrueText)
RECURSIVE SortByAbsDesc(_)
SortByAbsDesc(as) ==
    IF as = <<>> THEN <<>>
    ELSE InsertByAbs(SortByAbsDesc(SubSeq(as, 1, Len(as) - 1)), as[Len(as)])

Take(s, n) == SubSeq(s, 1, IF Len(s) < n THEN Len(s) ELSE n)

analyze_ticker(ticker, company_name, arts) ==
    IF arts = <<>>
    THEN [ticker |-> ticker, company |-> company_name, sentiment_score |-> Zero,
          article_count |-> 0, articles |-> <<>>]
    ELSE LET article_sentiments == [i \in 1..Len(arts) |-> ScoreArticle(arts[i])]
             analyzed_articles ==
                 [i \in 1..Len(arts) |-> [title |-> arts[i].title, url |-> arts[i].url,
                                          sentiment |-> article_sentiments[i]]]
             total == SumOf(article_sentiments)
             avg_sentiment == Reduced(Fraction(total.num, total.den * Len(article_sentiments)))
         IN  [ticker |-> ticker, company |-> company_name,
              sentiment_score |-> Round3(avg_sentiment),
              article_count |-> Len(arts),
              positive_articles |-> PositiveCount(article_sentiments),
              neutral_articles |-> NeutralCount(article_sentiments),
              negative_articles |-> NegativeCount(article_sentiments),
              articles |-> Take(SortByAbsDesc(analyzed_articles), TopArticles)]

\* analyze_ticker is not running while another component is exercised.
IdleAnalyze ==
    /\ articles = <<>>
    /\ analysis = [ticker |-> "", company |-> ""]

(***************************************************************************)
(* Mover classifier: _generate_signal and _infer_sentiment, in             *)
(* fast_sp500_movers.py (Fast...) and lambda-package/sp500_movers.py       *)
(* (SP500...).  Percent changes are in hundredths of a percent.            *)
(***************************************************************************)
\* percent changes range over -13.0 .. 13.0, in steps of 0.1
MaxChangeSteps == 130

ChangeValues == {10 * k : k \in (0 - MaxChangeSteps)..MaxChangeSteps}

FastGenerateSignal(pct, kind) ==
    IF kind = "gainer"
    THEN IF pct > 1000 THEN "OVERBOUGHT"
         ELSE IF pct > 500 THEN "STRONG BUY"
         ELSE IF pct > 300 THEN "BUY"
         ELSE IF pct > 150 THEN "WEAK BUY"
         ELSE "NEUTRAL"
    ELSE IF pct < -1000 THEN "OVERSOLD"
         ELSE IF pct < -500 THEN "STRONG SELL"
         ELSE IF pct < -300 THEN "SELL"
         ELSE IF pct < -150 THEN "WEAK SELL"
         ELSE "NEUTRAL"

\* mutant: this copy lets a loss of exactly 1.5 percent count as WEAK SELL
SP500GenerateSignalMutant(pct, kind) ==
    IF kind = "gainer"
    THEN IF pct > 1000 THEN "OVERBOUGHT"
         ELSE IF pct > 500 THEN "STRONG BUY"
         ELSE IF pct > 300 THEN "BUY"
         ELSE IF pct > 150 THEN "WEAK BUY"
         ELSE "NEUTRAL"
    ELSE IF pct < -1000 THEN "OVERSOLD"
         ELSE IF pct < -500 THEN "STRONG SELL"
         ELSE IF pct < -300 THEN "SELL"
         ELSE IF pct <= -150 THEN "WEAK SELL"
         ELSE "NEUTRAL"

SP500GenerateSignal(pct, kind) ==
    IF kind = "gainer"
    THEN IF pct > 1000 THEN "OVERBOUGHT"
         ELSE IF pct > 500 THEN "STRONG BUY"
         ELSE IF pct > 300 THEN "BUY"
         ELSE IF pct > 150 THEN "WEAK BUY"
         ELSE "NEUTRAL"
    ELSE IF pct < -1000 THEN "OVERSOLD"
         ELSE IF pct < -500 THEN "STRONG SELL"
         ELSE IF pct < -300 THEN "SELL"
         ELSE IF pct < -150 THEN "WEAK SELL"
         ELSE "NEUTRAL"

\* mutant: a change of exactly 0 counts as Slightly Bullish
FastInferSentimentMutant(pct) ==
    IF pct > 300 THEN "Very Bullish"
    ELSE IF pct > 100 THEN "Bullish"
    ELSE IF pct >= 0 THEN "Slightly Bullish"
    ELSE IF pct > -100 THEN "Slightly Bearish"
    ELSE IF pct > -300 THEN "Bearish"
    ELSE "Very Bearish"

FastInferSentiment(pct) ==
    IF pct > 300 THEN "Very Bullish"
    ELSE IF pct > 100 THEN "Bullish"
    ELSE IF pct > 0 THEN "Slightly Bullish"
    ELSE IF pct > -100 THEN "Slightly Bearish"
    ELSE IF pct > -300 THEN "Bearish"
    ELSE "Very Bearish"

SP500InferSentiment(pct) ==
    IF pct > 300 THEN "Very Bullish"
    ELSE IF pct > 100 THEN "Bullish"
    ELSE IF pct > 0 THEN "Slightly Bullish"
    ELSE IF pct > -100 THEN "Slightly Bearish"
    ELSE IF pct > -300 THEN "Bearish"
    ELSE "Very Bearish"

\* The classifier is not running while another component is exercised.
IdleClassify ==
    /\ change_pct = 0
    /\ mover_type = "gainer"
    /\ mover = [fast_signal |-> "", sp500_signal |-> "", fast_sentiment |-> "", sp500_sentiment |-> ""]

(***************************************************************************)
(* Top movers: SP500MoversAnalyzer.get_top_gainers_losers                  *)
(* (lambda-package/sp500_movers.py).  A quote is a Python dict; its        *)
(* ticker identifies the object, so that one quote placed in both lists    *)
(* is one object whose 'signal' key is written twice.                     *)
(***************************************************************************)
MaxQuotes == 4
MaxTopN == 3

QuoteChanges == {-1200, -400, -200, 0, 200, 600}

\* quotes as get_batch_quotes appends them: one per ticker, in ticker order
QuotesFrom(c) == [i \in 1..Len(c) |-> [ticker |-> i, change_pct |-> c[i]]]

\* x placed after every element whose change_pct is at least its own
RECURSIVE InsertByChange(_, _)
InsertByChange(sorted, x) ==
    IF sorted = <<>> THEN <<x>>
    ELSE IF Head(sorted).change_pct >= x.change_pct
         THEN <<Head(sorted)>> \o InsertByChange(Tail(sorted), x)
         ELSE <<x>> \o sorted

\* sorted(quotes, key=lambda x: x['change_pct'], reverse=TrueText): stable
RECURSIVE SortByChangeDesc(_)
SortByChangeDesc(qs) ==
    IF qs = <<>> THEN <<>>
    ELSE InsertByChange(SortByChangeDesc(SubSeq(qs, 1, Len(qs) - 1)), qs[Len(qs)])

\* the slice s[-n:]  (s[-0:] is the whole of s)
LastN(s, n) ==
    IF n = 0 \/ n >= Len(s) THEN s ELSE SubSeq(s, Len(s) - n + 1, Len(s))

Reverse(s) == [i \in 1..Len(s) |-> s[Len(s) + 1 - i]]

\* mutant: the losers are left best performer first
LosersOfNotReversed(sorted_quotes, n) == LastN(sorted_quotes, n)

LosersOf(sorted_quotes, n) == Reverse(LastN(sorted_quotes, n))

Tickers(s) == {s[i].ticker : i \in 1..Len(s)}

\* The two loops write 'signal' and 'sentiment' into the quote objects, the
\* gainers first and the losers second: an object in both lists ends with
\* what the second loop wrote.
Labelled(q, losers) ==
    [ticker |-> q.ticker,
     change_pct |-> q.change_pct,
     signal |-> SP500GenerateSignal(q.change_pct,
                    IF q.ticker \in Tickers(losers) THEN "loser" ELSE "gainer"),
     sentiment |-> SP500InferSentiment(q.change_pct)]

get_top_gainers_losers(qs, n) ==
    IF qs = <<>>
    THEN [gainers |-> <<>>, losers |-> <<>>]
    ELSE LET sorted_quotes == SortByChangeDesc(qs)
             gainers == Take(sorted_quotes, n)
             losers == LosersOf(sorted_quotes, n)
         IN  [gainers |-> [i \in 1..Len(gainers) |-> Labelled(gainers[i], losers)],
              losers |-> [i \in 1..Len(losers) |-> Labelled(losers[i], losers)],
              total_analyzed |-> Len(qs)]

\* get_top_gainers_losers is not running while another component is exercised.
IdleMovers ==
    /\ quotes = <<>>
    /\ top_n = 0
    /\ movers_data = [gainers |-> <<>>]

(***************************************************************************)
(* Fundamentals evaluator: analyze_valuation                               *)
(*                                                                         *)
(* An appended message is a record of its fixed wording and the formatted  *)
(* number; ratios print with two decimals and margins as percentages with  *)
(* one decimal, both exact for values in hundredths.                       *)
(***************************************************************************)
MetricKeys == {"pe_ratio", "peg_ratio", "price_to_book", "debt_to_equity",
               "profit_margin", "quarterly_revenue_growth"}

\* Sample values of each ratio (hundredths): below, at and above every
\* threshold of its rule, zero, a negative value where one can occur, and None.
MetricValues ==
    [pe_ratio |-> {None, Some(-500), Some(0), Some(1000), Some(1500), Some(3000), Some(3500)},
     peg_ratio |-> {None, Some(-100), Some(0), Some(50), Some(100), Some(300)},
     price_to_book |-> {None, Some(0), Some(50), Some(100), Some(500), Some(600)},
     debt_to_equity |-> {None, Some(0), Some(30), Some(50), Some(200), Some(300)},
     profit_margin |-> {None, Some(0), Some(2), Some(5), Some(20), Some(25)},
     quarterly_revenue_growth |-> {None, Some(-10), Some(0), Some(15), Some(20)}]

\* Python truth value of an optional number: None and 0 are false.
Truthy(x) == x # None /\ x[1] # 0

Message(wording, x) == [text |-> wording, value |-> x[1]]
AppendTo(a, bucket, wording, x) == [a EXCEPT ![bucket] = Append(@, Message(wording, x))]

NoAssessment == [overall |-> "Unknown", signals |-> <<>>, concerns |-> <<>>, strengths |-> <<>>]

\* mutant: the boundaries 15 and 30 fall into the outer branches
PeRuleMutant(a, pe_ratio) ==
    IF Truthy(pe_ratio)
    THEN IF pe_ratio[1] <= 1500
         THEN AppendTo(a, "signals", "Low P/E - potentially undervalued", pe_ratio)
         ELSE IF pe_ratio[1] >= 3000
         THEN AppendTo(a, "concerns", "High P/E - potentially overvalued", pe_ratio)
         ELSE AppendTo(a, "signals", "Moderate P/E - fairly valued", pe_ratio)
    ELSE a

PeRule(a, pe_ratio) ==
    IF Truthy(pe_ratio)
    THEN IF pe_ratio[1] < 1500
         THEN AppendTo(a, "signals", "Low P/E - potentially undervalued", pe_ratio)
         ELSE IF pe_ratio[1] > 3000
         THEN AppendTo(a, "concerns", "High P/E - potentially overvalued", pe_ratio)
         ELSE AppendTo(a, "signals", "Moderate P/E - fairly valued", pe_ratio)
    ELSE a

PegRule(a, peg_ratio) ==
    IF Truthy(peg_ratio) /\ peg_ratio[1] > 0
    THEN IF peg_ratio[1] < 100
         THEN AppendTo(a, "strengths", "PEG ratio - good value relative to growth", peg_ratio)
         ELSE IF peg_ratio[1] > 200
         THEN AppendTo(a, "concerns", "PEG ratio - expensive relative to growth", peg_ratio)
         ELSE a
    ELSE a

PriceToBookRule(a, price_to_book) ==
    IF Truthy(price_to_book)
    THEN IF price_to_book[1] < 100
         THEN AppendTo(a, "signals", "P/B ratio - trading below book value", price_to_book)
         ELSE IF price_to_book[1] > 500
         THEN AppendTo(a, "concerns", "P/B ratio - trading at premium", price_to_book)
         ELSE a
    ELSE a

DebtRule(a, debt_to_equity) ==
    IF Truthy(debt_to_equity)
    THEN IF debt_to_equity[1] > 200
         THEN AppendTo(a, "concerns", "High debt-to-equity", debt_to_equity)
         ELSE IF debt_to_equity[1] < 50
         THEN AppendTo(a, "strengths", "Low debt-to-equity - strong balance sheet", debt_to_equity)
         ELSE a
    ELSE a

ProfitabilityRule(a, profit_margin) ==
    IF Truthy(profit_margin)
    THEN IF profit_margin[1] > 20
         THEN AppendTo(a, "strengths", "Strong profit margin", profit_margin)
         ELSE IF profit_margin[1] < 5
         THEN AppendTo(a, "concerns", "Low profit margin", profit_margin)
         ELSE a
    ELSE a

GrowthRule(a, revenue_growth) ==
    IF Truthy(revenue_growth)
    THEN IF revenue_growth[1] > 15
         THEN AppendTo(a, "strengths", "Strong revenue growth", revenue_growth)
         ELSE IF revenue_growth[1] < 0
         THEN AppendTo(a, "concerns", "Declining revenue", revenue_growth)
         ELSE a
    ELSE a

\* mutant: a lead of exactly one already decides the verdict
OverallOfOffByOne(strength_count, concern_count) ==
    IF strength_count >= concern_count + 1 THEN "Attractive"
    ELSE IF concern_count >= strength_count + 1 THEN "Concerns"
    ELSE "Mixed"

\* mutant: no final else branch, the initial 'Unknown' stays
OverallOfNoElse(strength_count, concern_count) ==
    IF strength_count > concern_count + 1 THEN "Attractive"
    ELSE IF concern_count > strength_count + 1 THEN "Concerns"
    ELSE "Unknown"

OverallOf(strength_count, concern_count) ==
    IF strength_count > concern_count + 1 THEN "Attractive"
    ELSE IF concern_count > strength_count + 1 THEN "Concerns"
    ELSE "Mixed"

\* mutant: a mapping without any evaluated metric keeps the initial assessment
analyze_valuation_keeps_initial(m) ==
    IF \A k \in MetricKeys : m[k] = None
    THEN NoAssessment
    ELSE LET a1 == PeRule(NoAssessment, m["pe_ratio"])
             a2 == PegRule(a1, m["peg_ratio"])
             a3 == PriceToBookRule(a2, m["price_to_book"])
             a4 == DebtRule(a3, m["debt_to_equity"])
             a5 == ProfitabilityRule(a4, m["profit_margin"])
             a6 == GrowthRule(a5, m["quarterly_revenue_growth"])
         IN  [a6 EXCEPT !.overall = OverallOf(Len(a6.strengths), Len(a6.concerns))]

analyze_valuation(m) ==
    LET a1 == PeRule(NoAssessment, m["pe_ratio"])
        a2 == PegRule(a1, m["peg_ratio"])
        a3 == PriceToBookRule(a2, m["price_to_book"])
        a4 == DebtRule(a3, m["debt_to_equity"])
        a5 == ProfitabilityRule(a4, m["profit_margin"])
        a6 == GrowthRule(a5, m["quarterly_revenue_growth"])
    IN  [a6 EXCEPT !.overall = OverallOf(Len(a6.strengths), Len(a6.concerns))]

(***************************************************************************)
(* Signal combiner: _generate_combined_signal                              *)
(***************************************************************************)
\* mutant: the boundary 0.15 counted as Bullish, -0.15 as Bearish
SentimentLabelMutant(score) ==
    IF score >= 15 THEN "Bullish"
    ELSE IF score <= -15 THEN "Bearish"
    ELSE "Neutral"

SentimentLabel(score) ==
    IF score > 15 THEN "Bullish"
    ELSE IF score < -15 THEN "Bearish"
    ELSE "Neutral"

\* mutant: a missing price change treated like a zero price change
MomentumLabelMutant(pct) ==
    IF pct # None /\ pct[1] > 200 THEN "Strong Upward"
    ELSE IF pct # None /\ pct[1] > 50 THEN "Upward"
    ELSE IF pct # None /\ pct[1] < -200 THEN "Strong Downward"
    ELSE IF pct # None /\ pct[1] < -50 THEN "Downward"
    ELSE "Flat"

MomentumLabel(pct) ==
    IF pct # None
    THEN IF pct[1] > 200 THEN "Strong Upward"
         ELSE IF pct[1] > 50 THEN "Upward"
         ELSE IF pct[1] < -200 THEN "Strong Downward"
         ELSE IF pct[1] < -50 THEN "Downward"
         ELSE "Flat"
    ELSE "Unknown"

SentimentContribution(sentiment_label) ==
    IF sentiment_label = "Bullish" THEN 30
    ELSE IF sentiment_label = "Bearish" THEN -30
    ELSE 0

\* mutant: the Downward bucket subtracts the Strong Downward weight
MomentumContributionMutant(momentum_label) ==
    IF momentum_label = "Strong Upward" THEN 40
    ELSE IF momentum_label = "Upward" THEN 20
    ELSE IF momentum_label = "Strong Downward" THEN -40
    ELSE IF momentum_label = "Downward" THEN -40
    ELSE 0

MomentumContribution(momentum_label) ==
    IF momentum_label = "Strong Upward" THEN 40
    ELSE IF momentum_label = "Upward" THEN 20
    ELSE IF momentum_label = "Strong Downward" THEN -40
    ELSE IF momentum_label = "Downward" THEN -20
    ELSE 0

ValuationContribution(valuation_label) ==
    IF valuation_label = "Attractive" THEN 30
    ELSE IF valuation_label = "Concerns" THEN -30
    ELSE 0

CompositeScore(sentiment_label, momentum_label, valuation_label) ==
    0 + SentimentContribution(sentiment_label)
      + MomentumContribution(momentum_label)
      + ValuationContribution(valuation_label)

\* mutant: strict comparisons at the thresholds
SignalOfMutant(score) ==
    IF score > 60 THEN "STRONG BUY"
    ELSE IF score > 30 THEN "BUY"
    ELSE IF score > 10 THEN "WEAK BUY"
    ELSE IF score < -60 THEN "STRONG SELL"
    ELSE IF score < -30 THEN "SELL"
    ELSE IF score < -10 THEN "WEAK SELL"
    ELSE "NEUTRAL"

\* mutant: scores up to 19 in size are NEUTRAL
SignalOfWideNeutral(score) ==
    IF score >= 60 THEN "STRONG BUY"
    ELSE IF score >= 30 THEN "BUY"
    ELSE IF score >= 20 THEN "WEAK BUY"
    ELSE IF score <= -60 THEN "STRONG SELL"
    ELSE IF score <= -30 THEN "SELL"
    ELSE IF score <= -20 THEN "WEAK SELL"
    ELSE "NEUTRAL"

SignalOf(score) ==
    IF score >= 60 THEN "STRONG BUY"
    ELSE IF score >= 30 THEN "BUY"
    ELSE IF score >= 10 THEN "WEAK BUY"
    ELSE IF score <= -60 THEN "STRONG SELL"
    ELSE IF score <= -30 THEN "SELL"
    ELSE IF score <= -10 THEN "WEAK SELL"
    ELSE "NEUTRAL"

\* The f-string of the summary sentence, as the sequence of its literal and
\* interpolated pieces (their concatenation is the Python string).
SummarySentence(score, s, m, v) ==
    IF score >= 60
    THEN <<"High conviction: ", s, " sentiment + ", m, " momentum + ", v, " valuation">>
    ELSE IF score >= 30
    THEN <<"Positive signals: ", s, " sentiment, ", m, " momentum, ", v, " valuation">>
    ELSE IF score >= 10
    THEN <<"Modestly positive: Check ", v, " valuation and ", m, " momentum">>
    ELSE IF score <= -60
    THEN <<"High risk: ", s, " sentiment + ", m, " momentum + ", v, " valuation">>
    ELSE IF score <= -30
    THEN <<"Negative signals: ", s, " sentiment, ", m, " momentum, ", v, " valuation">>
    ELSE IF score <= -10
    THEN <<"Modestly negative: Monitor ", v, " valuation and ", m, " momentum">>
    ELSE <<"Mixed signals: ", s, " sentiment, ", m, " momentum, ", v, " valuation">>

UpwardLabels == {"Strong Upward", "Upward"}
DownwardLabels == {"Strong Downward", "Downward"}

\* mutant: the aligned note is appended without looking at momentum
SecondaryNotesMutant(s, m, v) ==
    IF s = "Bullish" /\ v = "Attractive"
    THEN << <<"All indicators aligned - Strong opportunity">> >>
    ELSE IF s = "Bearish" /\ m \in DownwardLabels /\ v = "Concerns"
    THEN << <<"All indicators negative - High risk">> >>
    ELSE IF s = "Bullish" /\ v = "Concerns"
    THEN << <<"Positive sentiment but overvalued - Exercise caution">> >>
    ELSE IF s = "Bearish" /\ v = "Attractive"
    THEN << <<"Potential value opportunity despite negative sentiment">> >>
    ELSE IF m \in UpwardLabels /\ s = "Neutral"
    THEN << <<"Strong price momentum - Watch for sentiment shift">> >>
    ELSE <<>>

\* The notes appended after the summary sentence (empty or one note).
SecondaryNotes(s, m, v) ==
    IF s = "Bullish" /\ m \in UpwardLabels /\ v = "Attractive"
    THEN << <<"All indicators aligned - Strong opportunity">> >>
    ELSE IF s = "Bearish" /\ m \in DownwardLabels /\ v = "Concerns"
    THEN << <<"All indicators negative - High risk">> >>
    ELSE IF s = "Bullish" /\ v = "Concerns"
    THEN << <<"Positive sentiment but overvalued - Exercise caution">> >>
    ELSE IF s = "Bearish" /\ v = "Attractive"
    THEN << <<"Potential value opportunity despite negative sentiment">> >>
    ELSE IF m \in UpwardLabels /\ s = "Neutral"
    THEN << <<"Strong price momentum - Watch for sentiment shift">> >>
    ELSE <<>>

\* round(price_change_pct, 2) if price_change_pct else None
MomentumPct(pct) ==
    IF pct # None /\ pct[1] # 0 THEN pct ELSE None

generate_combined_signal(score_in, valuation_in, pct) ==
    LET sentiment_label == SentimentLabel(score_in)
        momentum_label == MomentumLabel(pct)
        valuation_label == valuation_in.overall
        score == CompositeScore(sentiment_label, momentum_label, valuation_label)
    IN  [signal |-> SignalOf(score),
         sentiment |-> sentiment_label,
         momentum |-> momentum_label,
         momentum_pct |-> MomentumPct(pct),
         valuation |-> valuation_label,
         composite_score |-> score,
         reasoning |-> <<SummarySentence(score, sentiment_label, momentum_label, valuation_label)>>
                       \o SecondaryNotes(sentiment_label, momentum_label, valuation_label)]

(***************************************************************************)
(* Report pipeline: analyze_ticker_with_fundamentals, generate_report and  *)
(* _format_enhanced_report, in sentiment_analyzer.py ("root") and in       *)
(* lambda-package/sentiment_analyzer.py ("lambda-package").                *)
(***************************************************************************)
MaxTickers == 3

\* the dict TICKERS in insertion order: ticker and company name
TICKERS == <<[ticker |-> "AAPL", company |-> "Apple"],
             [ticker |-> "MSFT", company |-> "Microsoft"],
             [ticker |-> "GOOGL", company |-> "Google"],
             [ticker |-> "TSLA", company |-> "Tesla"],
             [ticker |-> "NVDA", company |-> "NVIDIA"]>>

Article(first) == CHOOSE a \in ArticlePool : Head(a.title) = first

\* What fetch_news returns for a ticker: nothing, or articles whose mean
\* score is 1, -1, 0.2 or 0.5.
NewsChoices ==
    {<<>>,
     ArticlesFrom(<<Article("R")>>),
     ArticlesFrom(<<Article("c")>>),
     ArticlesFrom(<<Article("s")>>),
     ArticlesFrom(<<Article("R"), Article("u")>>)}

NoMetrics == [k \in MetricKeys |-> None]

\* What get_stock_fundamentals returns for a ticker: success False (None),
\* or success TrueText with metrics that are all null, all strengths or all concerns.
\* The metrics mapping has no key 'price_change_pct'.
FundamentalsChoices ==
    {None,
     Some(NoMetrics),
     Some([NoMetrics EXCEPT !["debt_to_equity"] = Some(30), !["profit_margin"] = Some(25),
                            !["quarterly_revenue_growth"] = Some(20)]),
     Some([NoMetrics EXCEPT !["debt_to_equity"] = Some(300), !["profit_margin"] = Some(2),
                            !["quarterly_revenue_growth"] = Some(-10)])}

\* dict.get(key, default)
Get(d, key, default) == IF key \in DOMAIN d THEN d[key] ELSE default

\* A sentiment score (a fraction) in hundredths, the unit of the combiner's
\* thresholds; exact for the scores of NewsChoices.
Hundredths(f) == (f.num * 100) \div f.den

\* root copy, lines 191-229: no momentum, thresholds 0.3 and -0.3
LegacySentimentLabel(score) ==
    IF score > 30 THEN "Bullish"
    ELSE IF score < -30 THEN "Bearish"
    ELSE "Neutral"

legacy_generate_combined_signal(score_in, valuation_in) ==
    LET sentiment_label == LegacySentimentLabel(score_in)
        valuation_label == valuation_in.overall
        outcome ==
            IF sentiment_label = "Bullish" /\ valuation_label = "Attractive"
            THEN <<"STRONG BUY SIGNAL", "Positive sentiment + Attractive valuation">>
            ELSE IF sentiment_label = "Bullish" /\ valuation_label = "Concerns"
            THEN <<"CAUTION", "Positive sentiment but valuation concerns">>
            ELSE IF sentiment_label = "Bearish" /\ valuation_label = "Attractive"
            THEN <<"CONTRARIAN OPPORTUNITY",
                   "Negative sentiment but attractive valuation - possible value play">>
            ELSE IF sentiment_label = "Bearish" /\ valuation_label = "Concerns"
            THEN <<"AVOID", "Negative sentiment + Valuation concerns">>
            ELSE <<"NEUTRAL", "Mixed signals - further research needed">>
    IN  [signal |-> outcome[1],
         sentiment |-> sentiment_label,
         valuation |-> valuation_label,
         reasoning |-> <<outcome[2]>>]

\* mutant: the momentum is read from a key that the metrics mapping has
analyze_ticker_with_fundamentals_wrong_key(which, t, f) ==
    LET sentiment_data == analyze_ticker(t.ticker, t.company, f.news)
    IN  IF f.fundamentals # None
        THEN LET m == f.fundamentals[1]
                 assessed == analyze_valuation(m)
             IN  sentiment_data @@
                 [financial_metrics |-> [price_change_pct |-> Get(m, "price_change_pct", None)],
                  valuation_analysis |-> assessed,
                  combined_signal |->
                      IF which = "root"
                      THEN legacy_generate_combined_signal(
                               Hundredths(sentiment_data.sentiment_score), assessed)
                      ELSE generate_combined_signal(
                               Hundredths(sentiment_data.sentiment_score), assessed,
                               Get(m, "debt_to_equity", Some(0)))]
        ELSE sentiment_data

\* 'financial_metrics' holds the price change read from the metrics and
\* display strings of other metrics (the strings are not modelled).
analyze_ticker_with_fundamentals(which, t, f) ==
    LET sentiment_data == analyze_ticker(t.ticker, t.company, f.news)
    IN  IF f.fundamentals # None
        THEN LET m == f.fundamentals[1]
                 assessed == analyze_valuation(m)
             IN  sentiment_data @@
                 [financial_metrics |-> [price_change_pct |-> Get(m, "price_change_pct", None)],
                  valuation_analysis |-> assessed,
                  combined_signal |->
                      IF which = "root"
                      THEN legacy_generate_combined_signal(
                               Hundredths(sentiment_data.sentiment_score), assessed)
                      ELSE generate_combined_signal(
                               Hundredths(sentiment_data.sentiment_score), assessed,
                               Get(m, "price_change_pct", Some(0)))]
        ELSE sentiment_data

\* the loop of generate_report: one record per ticker, in ticker order
AnalyzeAll(which, fd) ==
    [i \in 1..Len(fd) |-> analyze_ticker_with_fundamentals(which, TICKERS[i], fd[i])]

\* key=lambda x: x.get('sentiment_score', 0)
SortKey(r) == Get(r, "sentiment_score", Zero)

\* x placed after every record whose score is at least its own
RECURSIVE InsertByScore(_, _)
InsertByScore(sorted, x) ==
    IF sorted = <<>> THEN <<x>>
    ELSE IF ~FracLess(SortKey(Head(sorted)), SortKey(x))
         THEN <<Head(sorted)>> \o InsertByScore(Tail(sorted), x)
         ELSE <<x>> \o sorted

\* results.sort(key=..., reverse=TrueText): stable, descending
RECURSIVE SortByScoreDesc(_)
SortByScoreDesc(rs) ==
    IF rs = <<>> THEN <<>>
    ELSE InsertByScore(SortByScoreDesc(SubSeq(rs, 1, Len(rs) - 1)), rs[Len(rs)])

\* the keys that the loop body of _format_enhanced_report reads with result[...]
RequiredKeys == <<"ticker", "company", "sentiment_score", "article_count",
                  "positive_articles", "neutral_articles", "negative_articles">>

\* the first key whose lookup raises KeyError for this record, if any
FirstMissing(r) ==
    LET missing == {i \in 1..Len(RequiredKeys) : RequiredKeys[i] \notin DOMAIN r}
    IN  IF missing = {} THEN None
        ELSE Some(RequiredKeys[CHOOSE i \in missing : \A j \in missing : i <= j])

\* what the report shows of one record (number and text formats not modelled)
Section(r) ==
    LET combined == Get(r, "combined_signal", <<>>)
    IN  [ticker |-> r.ticker,
         signal |-> IF combined = <<>> THEN "N/A" ELSE Get(combined, "signal", "N/A"),
         sentiment |-> IF combined = <<>> THEN "N/A" ELSE Get(combined, "sentiment", "N/A"),
         valuation |-> IF combined = <<>> THEN "N/A" ELSE Get(combined, "valuation", "N/A"),
         score |-> r.sentiment_score,
         counts |-> <<r.article_count, r.positive_articles, r.neutral_articles,
                      r.negative_articles>>]

\* the rendering loop: the sections in order, up to the first record that raises
RECURSIVE Render(_)
Render(rs) ==
    IF rs = <<>> THEN [raised |-> None, sections |-> <<>>]
    ELSE IF FirstMissing(Head(rs)) # None
         THEN [raised |-> FirstMissing(Head(rs)), sections |-> <<>>]
         ELSE LET rest == Render(Tail(rs))
              IN  [raised |-> rest.raised, sections |-> <<Section(Head(rs))>> \o rest.sections]

\* No report is being generated while another component is exercised.
IdleReport ==
    /\ copy = "root"
    /\ feed = <<>>
    /\ results = <<>>
    /\ report = [raised |-> None, sections |-> <<>>]

(***************************************************************************)
(* News fetch: fetch_news (sentiment_analyzer.py, same in both copies).    *)
(* A URL is a sequence of characters; '' is the empty sequence.  An        *)
(* article's title tells which request returned it and at which position.  *)
(***************************************************************************)
MaxPageArticles == 3
MaxRunLength == 11
NewsLimit == 20

ArticleOfKind(term, i, k) ==
    IF k = 0 THEN [title |-> <<term, i>>]
    ELSE [title |-> <<term, i>>, url |-> IF k = 1 THEN <<>> ELSE <<k - 1>>]

\* a page of n articles with consecutive fresh URLs starting at first
RunPage(term, first, n) ==
    [i \in 1..n |-> [title |-> <<term, i>>, url |-> <<first + i - 1>>]]

\* the articles of a response with status 'ok'
Pages(term) ==
    UNION {{[i \in 1..n |-> ArticleOfKind(term, i, c[i])] : c \in [1..n -> (0..3)]}
               : n \in 0..MaxPageArticles}
    \cup {RunPage(term, first, MaxRunLength) : first \in {1, 6, 12}}

\* a request raises (network error, HTTP error status, bad JSON), answers
\* with a status other than 'ok', or answers 'ok' with a page of articles
ResponseChoices(term) ==
    {[status |-> "raise", articles |-> <<>>], [status |-> "error", articles |-> <<>>]}
    \cup {[status |-> "ok", articles |-> p] : p \in Pages(term)}

\* the loop over the search terms: all_articles.extend(articles) for 'ok'
AllArticles(rs) ==
    Concat([t \in 1..Len(rs) |-> IF rs[t].status = "ok" THEN rs[t].articles ELSE <<>>])

\* mutant: a later article replaces an earlier one with the same URL
RECURSIVE UniqueByUrlKeepLast(_, _)
UniqueByUrlKeepLast(all, seen_urls) ==
    IF all = <<>> THEN <<>>
    ELSE LET url == Get(Head(all), "url", <<>>)
             later == {Get(all[i], "url", <<>>) : i \in 2..Len(all)}
         IN  IF url # <<>> /\ url \notin seen_urls /\ url \notin later
             THEN <<Head(all)>> \o UniqueByUrlKeepLast(Tail(all), seen_urls \cup {url})
             ELSE UniqueByUrlKeepLast(Tail(all), seen_urls)

\* the de-duplication loop: url = article.get('url', ''); kept when the
\* url is non-empty and not seen before
RECURSIVE UniqueByUrl(_, _)
UniqueByUrl(all, seen_urls) ==
    IF all = <<>> THEN <<>>
    ELSE LET url == Get(Head(all), "url", <<>>)
         IN  IF url # <<>> /\ url \notin seen_urls
             THEN <<Head(all)>> \o UniqueByUrl(Tail(all), seen_urls \cup {url})
             ELSE UniqueByUrl(Tail(all), seen_urls)

fetch_news(rs) == Take(UniqueByUrl(AllArticles(rs), {}), NewsLimit)

\* fetch_news is not running while another component is exercised.
IdleFetch ==
    /\ responses = <<>>
    /\ unique_articles = <<>>

(***************************************************************************)
(* Scheduled report handler: lambda_handler of lambda_function.py.         *)
(* Environment values are optional texts (None when the variable is not    *)
(* set).  generate_report, save_to_s3 and send_email_report are the        *)
(* collaborators; each call is logged in 'effects' with its outcome.       *)
(***************************************************************************)
TrueText == <<"t", "r", "u", "e">>

KeyValues == {None, Some(<<>>), Some(<<"k">>)}

\* Python truth value of an optional text: None and '' are false
TruthyText(v) == v # None /\ v[1] # <<>>

\* os.environ.get('EMAIL_ENABLED', 'true').lower() == 'true'
EmailEnabled(env) ==
    lower(IF env.EMAIL_ENABLED = None THEN TrueText ELSE env.EMAIL_ENABLED[1]) = TrueText

\* all([from_email, to_email, app_password])
EmailComplete(env) ==
    /\ TruthyText(env.EMAIL_FROM)
    /\ TruthyText(env.EMAIL_TO)
    /\ TruthyText(env.EMAIL_PASSWORD)

ErrorResponse(message) == [statusCode |-> 500, error |-> message]

NoResponse == [statusCode |-> 0]

Call(name, outcome) == [call |-> name, ok |-> outcome]

\* The handler is not running while another component is exercised.
IdleHandler ==
    /\ environ = <<>>
    /\ effects = <<>>
    /\ s3_success = FALSE
    /\ email_success = FALSE
    /\ response = NoResponse

(***************************************************************************)
(* Fast movers: get_yahoo_movers, get_finviz_movers and lambda_handler of  *)
(* fast_sp500_movers.py.  A scraped table is the list of stocks that       *)
(* _scrape_yahoo_table or _scrape_finviz_table returns ([] when the page   *)
(* cannot be fetched or has no table); change_pct is None for a row whose  *)
(* percentage _safe_float could not parse.                                 *)
(***************************************************************************)
MaxRows == 2

Sources == <<"Yahoo Finance", "Finviz">>

RowChanges(kind) ==
    IF kind = "gainer" THEN {None, Some(600)} ELSE {None, Some(-400)}

ScrapedTables(kind) ==
    UNION {{[i \in 1..n |-> [ticker |-> i, change_pct |-> c[i]]] : c \in [1..n -> RowChanges(kind)]}
               : n \in 0..MaxRows}

\* stock['signal'] = ...; stock['sentiment'] = ...
FastLabelled(stock, kind) ==
    [ticker |-> stock.ticker,
     change_pct |-> stock.change_pct,
     signal |-> FastGenerateSignal(stock.change_pct[1], kind),
     sentiment |-> FastInferSentiment(stock.change_pct[1])]

\* comparing None with a number raises TypeError
Unparsed(stocks) == \E i \in 1..Len(stocks) : stocks[i].change_pct = None

\* the body shared by get_yahoo_movers and get_finviz_movers: label the
\* gainers, then the losers; any exception gives the two empty lists
get_movers(gainers, losers, source) ==
    IF Unparsed(gainers) \/ Unparsed(losers)
    THEN [gainers |-> <<>>, losers |-> <<>>, error |-> "TypeError"]
    ELSE [gainers |-> [i \in 1..Len(gainers) |-> FastLabelled(gainers[i], "gainer")],
          losers |-> [i \in 1..Len(losers) |-> FastLabelled(losers[i], "loser")],
          source |-> source]

get_yahoo_movers(t) == get_movers(t.yahoo_gainers, t.yahoo_losers, Sources[1])
get_finviz_movers(t) == get_movers(t.finviz_gainers, t.finviz_losers, Sources[2])

\* not movers_data.get('gainers') or not movers_data.get('losers')
YahooFailed(data) == data.gainers = <<>> \/ data.losers = <<>>

\* The movers handler is not running while another component is exercised.
IdleFast ==
    /\ tables = [yahoo_gainers |-> <<>>, yahoo_losers |-> <<>>, finviz_gainers |-> <<>>, finviz_losers |-> <<>>]
    /\ fetched = <<>>
    /\ fast_movers_data = [gainers |-> <<>>, losers |-> <<>>]
    /\ fast_response = NoResponse

(***************************************************************************)
(* Dynamic stock picker: get_sp500_gainers_losers, _get_fallback_stocks,   *)
(* analyze_stocks and lambda_handler of dynamic_stock_picker.py.  A dict   *)
(* of stocks is the sequence of its (ticker, company) items in insertion   *)
(* order.  The result of analysing a stock is reduced to its ticker.       *)
(***************************************************************************)
MaxListed == 6
MaxFailing == 1
PickerLimit == 5

Stock(t, name) == [ticker |-> t, company |-> name]

\* the tickers the endpoint lists, best (worst) first
ListedGainers == <<"G1", "G2", "G3", "G4", "G5", "G6", "G7">>
ListedLosers == <<"L1", "L2", "L3", "L4", "L5", "L6", "L7">>

\* the request raises, or answers with a JSON object that has the key
\* 'top_gainers', the key 'top_losers', both or none
ApiResponses ==
    {[raised |-> TRUE]}
    \cup {[raised |-> FALSE]}
    \cup {[raised |-> FALSE, top_gainers |-> Take(ListedGainers, n)] : n \in 0..MaxListed}
    \cup {[raised |-> FALSE, top_losers |-> Take(ListedLosers, n)] : n \in 0..MaxListed}
    \cup {[raised |-> FALSE, top_gainers |-> Take(ListedGainers, n),
           top_losers |-> Take(ListedLosers, k)] : n, k \in 0..MaxListed}

\* mutant: the fallback is reported as a successful selection
get_fallback_stocks_as_success ==
    [gainers |-> <<Stock("NVDA", "NVIDIA"), Stock("MSFT", "Microsoft"), Stock("AAPL", "Apple"),
                   Stock("GOOGL", "Google"), Stock("META", "Meta")>>,
     losers |-> <<Stock("TSLA", "Tesla"), Stock("AMD", "AMD"), Stock("INTC", "Intel"),
                  Stock("DIS", "Disney"), Stock("NFLX", "Netflix")>>,
     success |-> TRUE]

get_fallback_stocks ==
    [gainers |-> <<Stock("NVDA", "NVIDIA"), Stock("MSFT", "Microsoft"), Stock("AAPL", "Apple"),
                   Stock("GOOGL", "Google"), Stock("META", "Meta")>>,
     losers |-> <<Stock("TSLA", "Tesla"), Stock("AMD", "AMD"), Stock("INTC", "Intel"),
                  Stock("DIS", "Disney"), Stock("NFLX", "Netflix")>>,
     success |-> FALSE]

\* _get_company_name answers with the ticker when the name is not available
WithCompanyNames(listed) == [i \in 1..Len(listed) |-> Stock(listed[i], listed[i])]

get_sp500_gainers_losers(resp, limit) ==
    IF resp.raised THEN get_fallback_stocks
    ELSE IF "top_gainers" \in DOMAIN resp /\ "top_losers" \in DOMAIN resp
    THEN [gainers |-> WithCompanyNames(Take(resp.top_gainers, limit)),
          losers |-> WithCompanyNames(Take(resp.top_losers, limit)),
          success |-> TRUE]
    ELSE get_fallback_stocks

\* analyze_stocks: one result per stock, in order, without the stocks whose
\* analysis raised
RECURSIVE analyze_stocks(_, _)
analyze_stocks(stocks, failing) ==
    IF stocks = <<>> THEN <<>>
    ELSE IF Head(stocks).ticker \in failing THEN analyze_stocks(Tail(stocks), failing)
    ELSE <<[ticker |-> Head(stocks).ticker, company |-> Head(stocks).company]>>
             \o analyze_stocks(Tail(stocks), failing)

\* [r for r in analysis_results if r['ticker'] in stocks]
RECURSIVE ResultsIn(_, _)
ResultsIn(rs, stocks) ==
    IF rs = <<>> THEN <<>>
    ELSE IF Head(rs).ticker \in Tickers(stocks)
    THEN <<Head(rs)>> \o ResultsIn(Tail(rs), stocks)
    ELSE ResultsIn(Tail(rs), stocks)

\* The picker handler is not running while another component is exercised.
IdlePicker ==
    /\ picker_key = None
    /\ api_response = [raised |-> FALSE]
    /\ stock_data = [gainers |-> <<>>, losers |-> <<>>, success |-> FALSE]
    /\ analysis_results = <<>>
    /\ dashboard_data = [gainers |-> <<>>, losers |-> <<>>]
    /\ saved = FALSE
    /\ picker_response = NoResponse

\* The evaluator is not running while the combiner is exercised.
IdleEvaluate ==
    /\ metrics = [k \in MetricKeys |-> None]
    /\ assessment = NoAssessment

InitCombine ==
    /\ pc = "combine"
    /\ IdlePicker
    /\ IdleFast
    /\ IdleHandler
    /\ IdleFetch
    /\ IdleClassify
    /\ IdleMovers
    /\ IdleReport
    /\ IdleEvaluate
    /\ IdleScore
    /\ IdleAnalyze
    /\ sentiment_score \in SentimentScores
    /\ valuation \in [overall : OverallValues]
    /\ price_change_pct \in MomentumValues
    /\ combined_signal = [signal |-> "", sentiment |-> "", momentum |-> "", momentum_pct |-> None, valuation |-> "", composite_score |-> 0, reasoning |-> <<>>]

Combine ==
    /\ pc = "combine"
    /\ combined_signal' = generate_combined_signal(sentiment_score, valuation, price_change_pct)
    /\ pc' = "combine_done"
    /\ UNCHANGED <<sentiment_score, valuation, price_change_pct>>
    /\ UNCHANGED <<<<metrics, assessment>>,
                   <<text, text_score>>,
                   <<articles, analysis>>,
                   <<change_pct, mover_type, mover>>,
                   <<quotes, top_n, movers_data>>,
                   <<copy, feed, results, report>>,
                   <<responses, unique_articles>>,
                   <<environ, effects, s3_success, email_success, response>>,
                   <<tables, fetched, fast_movers_data, fast_response>>,
                   <<picker_key, api_response, stock_data, analysis_results, dashboard_data, saved, picker_response>>>>

SpecCombine == InitCombine /\ [][Combine]_vars

\* The combiner is not running while another component is exercised.
IdleCombine ==
    /\ sentiment_score = 0
    /\ valuation = [overall |-> "Unknown"]
    /\ price_change_pct = None
    /\ combined_signal = [signal |-> "", sentiment |-> "", momentum |-> "", momentum_pct |-> None, valuation |-> "", composite_score |-> 0, reasoning |-> <<>>]

InitEvaluate ==
    /\ pc = "evaluate"
    /\ IdlePicker
    /\ IdleFast
    /\ IdleHandler
    /\ IdleFetch
    /\ IdleClassify
    /\ IdleMovers
    /\ IdleReport
    /\ IdleCombine
    /\ IdleScore
    /\ IdleAnalyze
    /\ metrics \in [pe_ratio : MetricValues.pe_ratio,
                     peg_ratio : MetricValues.peg_ratio,
                     price_to_book : MetricValues.price_to_book,
                     debt_to_equity : MetricValues.debt_to_equity,
                     profit_margin : MetricValues.profit_margin,
                     quarterly_revenue_growth : MetricValues.quarterly_revenue_growth]
    /\ assessment = NoAssessment

Evaluate ==
    /\ pc = "evaluate"
    /\ assessment' = analyze_valuation(metrics)
    /\ pc' = "evaluate_done"
    /\ UNCHANGED metrics
    /\ UNCHANGED <<<<sentiment_score, valuation, price_change_pct, combined_signal>>,
                   <<text, text_score>>,
                   <<articles, analysis>>,
                   <<change_pct, mover_type, mover>>,
                   <<quotes, top_n, movers_data>>,
                   <<copy, feed, results, report>>,
                   <<responses, unique_articles>>,
                   <<environ, effects, s3_success, email_success, response>>,
                   <<tables, fetched, fast_movers_data, fast_response>>,
                   <<picker_key, api_response, stock_data, analysis_results, dashboard_data, saved, picker_response>>>>

SpecEvaluate == InitEvaluate /\ [][Evaluate]_vars

InitScore ==
    /\ pc = "score"
    /\ IdlePicker
    /\ IdleFast
    /\ IdleHandler
    /\ IdleFetch
    /\ IdleClassify
    /\ IdleMovers
    /\ IdleReport
    /\ IdleCombine
    /\ IdleEvaluate
    /\ IdleAnalyze
    /\ text \in Texts
    /\ text_score = Zero

Score ==
    /\ pc = "score"
    /\ text_score' = simple_sentiment_score(text)
    /\ pc' = "score_done"
    /\ UNCHANGED text
    /\ UNCHANGED <<<<sentiment_score, valuation, price_change_pct, combined_signal>>,
                   <<metrics, assessment>>,
                   <<articles, analysis>>,
                   <<change_pct, mover_type, mover>>,
                   <<quotes, top_n, movers_data>>,
                   <<copy, feed, results, report>>,
                   <<responses, unique_articles>>,
                   <<environ, effects, s3_success, email_success, response>>,
                   <<tables, fetched, fast_movers_data, fast_response>>,
                   <<picker_key, api_response, stock_data, analysis_results, dashboard_data, saved, picker_response>>>>

SpecScore == InitScore /\ [][Score]_vars

InitAnalyze ==
    /\ pc = "analyze"
    /\ IdlePicker
    /\ IdleFast
    /\ IdleHandler
    /\ IdleFetch
    /\ IdleClassify
    /\ IdleMovers
    /\ IdleReport
    /\ IdleCombine
    /\ IdleEvaluate
    /\ IdleScore
    /\ \E n \in 0..MaxArticles : \E c \in [1..n -> ArticlePool] : articles = ArticlesFrom(c)
    /\ analysis = [ticker |-> "", company |-> ""]

Analyze ==
    /\ pc = "analyze"
    /\ analysis' = analyze_ticker("AAPL", "Apple", articles)
    /\ pc' = "analyze_done"
    /\ UNCHANGED articles
    /\ UNCHANGED <<<<sentiment_score, valuation, price_change_pct, combined_signal>>,
                   <<metrics, assessment>>,
                   <<text, text_score>>,
                   <<change_pct, mover_type, mover>>,
                   <<quotes, top_n, movers_data>>,
                   <<copy, feed, results, report>>,
                   <<responses, unique_articles>>,
                   <<environ, effects, s3_success, email_success, response>>,
                   <<tables, fetched, fast_movers_data, fast_response>>,
                   <<picker_key, api_response, stock_data, analysis_results, dashboard_data, saved, picker_response>>>>

SpecAnalyze == InitAnalyze /\ [][Analyze]_vars

InitClassify ==
    /\ pc = "classify"
    /\ IdlePicker
    /\ IdleFast
    /\ IdleHandler
    /\ IdleFetch
    /\ IdleCombine
    /\ IdleEvaluate
    /\ IdleScore
    /\ IdleAnalyze
    /\ IdleMovers
    /\ IdleReport
    /\ change_pct \in ChangeValues
    /\ mover_type \in {"gainer", "loser"}
    /\ mover = [fast_signal |-> "", sp500_signal |-> "", fast_sentiment |-> "", sp500_sentiment |-> ""]

Classify ==
    /\ pc = "classify"
    /\ mover' = [fast_signal |-> FastGenerateSignal(change_pct, mover_type),
                 sp500_signal |-> SP500GenerateSignal(change_pct, mover_type),
                 fast_sentiment |-> FastInferSentiment(change_pct),
                 sp500_sentiment |-> SP500InferSentiment(change_pct)]
    /\ pc' = "classify_done"
    /\ UNCHANGED <<change_pct, mover_type>>
    /\ UNCHANGED <<<<sentiment_score, valuation, price_change_pct, combined_signal>>,
                   <<metrics, assessment>>,
                   <<text, text_score>>,
                   <<articles, analysis>>,
                   <<quotes, top_n, movers_data>>,
                   <<copy, feed, results, report>>,
                   <<responses, unique_articles>>,
                   <<environ, effects, s3_success, email_success, response>>,
                   <<tables, fetched, fast_movers_data, fast_response>>,
                   <<picker_key, api_response, stock_data, analysis_results, dashboard_data, saved, picker_response>>>>

SpecClassify == InitClassify /\ [][Classify]_vars

InitMovers ==
    /\ pc = "movers"
    /\ IdlePicker
    /\ IdleFast
    /\ IdleHandler
    /\ IdleFetch
    /\ IdleCombine
    /\ IdleEvaluate
    /\ IdleScore
    /\ IdleAnalyze
    /\ IdleClassify
    /\ IdleReport
    /\ \E n \in 0..MaxQuotes : \E c \in [1..n -> QuoteChanges] : quotes = QuotesFrom(c)
    /\ top_n \in 1..MaxTopN
    /\ movers_data = [gainers |-> <<>>]

Movers ==
    /\ pc = "movers"
    /\ movers_data' = get_top_gainers_losers(quotes, top_n)
    /\ pc' = "movers_done"
    /\ UNCHANGED <<quotes, top_n>>
    /\ UNCHANGED <<<<sentiment_score, valuation, price_change_pct, combined_signal>>,
                   <<metrics, assessment>>,
                   <<text, text_score>>,
                   <<articles, analysis>>,
                   <<change_pct, mover_type, mover>>,
                   <<copy, feed, results, report>>,
                   <<responses, unique_articles>>,
                   <<environ, effects, s3_success, email_success, response>>,
                   <<tables, fetched, fast_movers_data, fast_response>>,
                   <<picker_key, api_response, stock_data, analysis_results, dashboard_data, saved, picker_response>>>>

SpecMovers == InitMovers /\ [][Movers]_vars

InitReport ==
    /\ pc = "report"
    /\ IdlePicker
    /\ IdleFast
    /\ IdleHandler
    /\ IdleFetch
    /\ IdleCombine
    /\ IdleEvaluate
    /\ IdleScore
    /\ IdleAnalyze
    /\ IdleClassify
    /\ IdleMovers
    /\ copy \in {"root", "lambda-package"}
    /\ \E n \in 1..MaxTickers :
           feed \in [1..n -> [news : NewsChoices, fundamentals : FundamentalsChoices]]
    /\ results = <<>>
    /\ report = [raised |-> None, sections |-> <<>>]

\* root generate_report, lines 305-316: the loop that fills 'results'
AnalyzeTickers ==
    /\ pc = "report"
    /\ copy = "root"
    /\ results' = AnalyzeAll(copy, feed)
    /\ pc' = "format"
    /\ UNCHANGED <<copy, feed, report>>
    /\ UNCHANGED <<<<sentiment_score, valuation, price_change_pct, combined_signal>>,
                   <<metrics, assessment>>,
                   <<text, text_score>>,
                   <<articles, analysis>>,
                   <<change_pct, mover_type, mover>>,
                   <<quotes, top_n, movers_data>>,
                   <<responses, unique_articles>>,
                   <<environ, effects, s3_success, email_success, response>>,
                   <<tables, fetched, fast_movers_data, fast_response>>,
                   <<picker_key, api_response, stock_data, analysis_results, dashboard_data, saved, picker_response>>>>

\* root _format_enhanced_report, called with the list 'results': sorts the
\* list in place, then renders it; generate_report returns report, results
FormatEnhancedReport ==
    /\ pc = "format"
    /\ results' = SortByScoreDesc(results)
    /\ report' = Render(results')
    /\ pc' = IF report'.raised = None THEN "report_done" ELSE "report_raised"
    /\ UNCHANGED <<copy, feed>>
    /\ UNCHANGED <<<<sentiment_score, valuation, price_change_pct, combined_signal>>,
                   <<metrics, assessment>>,
                   <<text, text_score>>,
                   <<articles, analysis>>,
                   <<change_pct, mover_type, mover>>,
                   <<quotes, top_n, movers_data>>,
                   <<responses, unique_articles>>,
                   <<environ, effects, s3_success, email_success, response>>,
                   <<tables, fetched, fast_movers_data, fast_response>>,
                   <<picker_key, api_response, stock_data, analysis_results, dashboard_data, saved, picker_response>>>>

\* lambda-package generate_report: returns "", results
GenerateReportLambda ==
    /\ pc = "report"
    /\ copy = "lambda-package"
    /\ results' = AnalyzeAll(copy, feed)
    /\ report' = [raised |-> None, sections |-> <<>>]
    /\ pc' = "report_done"
    /\ UNCHANGED <<copy, feed>>
    /\ UNCHANGED <<<<sentiment_score, valuation, price_change_pct, combined_signal>>,
                   <<metrics, assessment>>,
                   <<text, text_score>>,
                   <<articles, analysis>>,
                   <<change_pct, mover_type, mover>>,
                   <<quotes, top_n, movers_data>>,
                   <<responses, unique_articles>>,
                   <<environ, effects, s3_success, email_success, response>>,
                   <<tables, fetched, fast_movers_data, fast_response>>,
                   <<picker_key, api_response, stock_data, analysis_results, dashboard_data, saved, picker_response>>>>

NextReport == AnalyzeTickers \/ FormatEnhancedReport \/ GenerateReportLambda

SpecReport == InitReport /\ [][NextReport]_vars

InitFetch ==
    /\ pc = "fetch"
    /\ IdlePicker
    /\ IdleFast
    /\ IdleHandler
    /\ IdleCombine
    /\ IdleEvaluate
    /\ IdleScore
    /\ IdleAnalyze
    /\ IdleClassify
    /\ IdleMovers
    /\ IdleReport
    /\ \E r1 \in ResponseChoices(1) : \E r2 \in ResponseChoices(2) : responses = <<r1, r2>>
    /\ unique_articles = <<>>

FetchNews ==
    /\ pc = "fetch"
    /\ unique_articles' = fetch_news(responses)
    /\ pc' = "fetch_done"
    /\ UNCHANGED responses
    /\ UNCHANGED <<<<sentiment_score, valuation, price_change_pct, combined_signal>>,
                   <<metrics, assessment>>,
                   <<text, text_score>>,
                   <<articles, analysis>>,
                   <<change_pct, mover_type, mover>>,
                   <<quotes, top_n, movers_data>>,
                   <<copy, feed, results, report>>, <<environ, effects, s3_success, email_success, response>>, <<tables, fetched, fast_movers_data, fast_response>>, <<picker_key, api_response, stock_data, analysis_results, dashboard_data, saved, picker_response>>>>

SpecFetch == InitFetch /\ [][FetchNews]_vars

InitHandler ==
    /\ pc = "handler"
    /\ IdlePicker
    /\ IdleFast
    /\ IdleCombine
    /\ IdleEvaluate
    /\ IdleScore
    /\ IdleAnalyze
    /\ IdleClassify
    /\ IdleMovers
    /\ IdleReport
    /\ IdleFetch
    /\ environ \in [NEWSAPI_KEY : KeyValues, EMAIL_ENABLED : {None, Some(TrueText), Some(<<"T", "r", "u", "e">>), Some(<<"f", "a", "l", "s", "e">>), Some(<<>>)},
                     EMAIL_FROM : KeyValues, EMAIL_TO : KeyValues, EMAIL_PASSWORD : KeyValues]
    /\ effects = <<>>
    /\ s3_success = FALSE
    /\ email_success = FALSE
    /\ response = NoResponse

\* lines 43-72: read the configuration and validate it
HandlerValidate ==
    /\ pc = "handler"
    /\ IF ~TruthyText(environ.NEWSAPI_KEY)
       THEN /\ response' = ErrorResponse("NEWSAPI_KEY environment variable not set")
            /\ pc' = "handler_done"
       ELSE IF EmailEnabled(environ) /\ ~EmailComplete(environ)
       THEN /\ response' = ErrorResponse("Email configuration incomplete")
            /\ pc' = "handler_done"
       ELSE /\ response' = response
            /\ pc' = "handler_analyze"
    /\ UNCHANGED <<environ, effects, s3_success, email_success>>
    /\ (UNCHANGED <<<<sentiment_score, valuation, price_change_pct, combined_signal>>,
                    <<metrics, assessment>>,
                    <<text, text_score>>,
                    <<articles, analysis>>,
                    <<change_pct, mover_type, mover>>,
                    <<quotes, top_n, movers_data>>,
                    <<copy, feed, results, report>>,
                    <<responses, unique_articles>>,
                    <<tables, fetched, fast_movers_data, fast_response>>,
                    <<picker_key, api_response, stock_data, analysis_results, dashboard_data, saved, picker_response>>>>)

\* lines 74-79: generate_report returns, or raises into the except clause
HandlerAnalyze ==
    /\ pc = "handler_analyze"
    /\ \E ok \in BOOLEAN :
           /\ effects' = Append(effects, Call("generate_report", ok))
           /\ IF ok
              THEN /\ response' = response
                   /\ pc' = "handler_save"
              ELSE /\ response' = ErrorResponse("generate_report raised")
                   /\ pc' = "handler_done"
    /\ UNCHANGED <<environ, s3_success, email_success>>
    /\ (UNCHANGED <<<<sentiment_score, valuation, price_change_pct, combined_signal>>,
                    <<metrics, assessment>>,
                    <<text, text_score>>,
                    <<articles, analysis>>,
                    <<change_pct, mover_type, mover>>,
                    <<quotes, top_n, movers_data>>,
                    <<copy, feed, results, report>>,
                    <<responses, unique_articles>>,
                    <<tables, fetched, fast_movers_data, fast_response>>,
                    <<picker_key, api_response, stock_data, analysis_results, dashboard_data, saved, picker_response>>>>)

\* lines 81-83: save_to_s3 returns TrueText, or False when put_object raises
HandlerSave ==
    /\ pc = "handler_save"
    /\ \E ok \in BOOLEAN :
           /\ effects' = Append(effects, Call("save_to_s3", ok))
           /\ s3_success' = ok
    /\ pc' = IF EmailEnabled(environ) THEN "handler_email" ELSE "handler_respond"
    /\ UNCHANGED <<environ, email_success, response>>
    /\ (UNCHANGED <<<<sentiment_score, valuation, price_change_pct, combined_signal>>,
                    <<metrics, assessment>>,
                    <<text, text_score>>,
                    <<articles, analysis>>,
                    <<change_pct, mover_type, mover>>,
                    <<quotes, top_n, movers_data>>,
                    <<copy, feed, results, report>>,
                    <<responses, unique_articles>>,
                    <<tables, fetched, fast_movers_data, fast_response>>,
                    <<picker_key, api_response, stock_data, analysis_results, dashboard_data, saved, picker_response>>>>)

\* lines 86-92: send_email_report returns TrueText, or False when sending fails
HandlerEmail ==
    /\ pc = "handler_email"
    /\ \E ok \in BOOLEAN :
           /\ effects' = Append(effects, Call("send_email_report", ok))
           /\ email_success' = ok
    /\ pc' = "handler_respond"
    /\ UNCHANGED <<environ, s3_success, response>>
    /\ (UNCHANGED <<<<sentiment_score, valuation, price_change_pct, combined_signal>>,
                    <<metrics, assessment>>,
                    <<text, text_score>>,
                    <<articles, analysis>>,
                    <<change_pct, mover_type, mover>>,
                    <<quotes, top_n, movers_data>>,
                    <<copy, feed, results, report>>,
                    <<responses, unique_articles>>,
                    <<tables, fetched, fast_movers_data, fast_response>>,
                    <<picker_key, api_response, stock_data, analysis_results, dashboard_data, saved, picker_response>>>>)

\* mutant: the response reports what send_email_report returned
HandlerRespondReportsSend ==
    /\ pc = "handler_respond"
    /\ response' = [statusCode |-> 200,
                    email_sent |-> email_success,
                    stocks_analyzed |-> Len(TICKERS),
                    s3_saved |-> s3_success]
    /\ pc' = "handler_done"
    /\ UNCHANGED <<environ, effects, s3_success, email_success>>
    /\ (UNCHANGED <<<<sentiment_score, valuation, price_change_pct, combined_signal>>,
                    <<metrics, assessment>>,
                    <<text, text_score>>,
                    <<articles, analysis>>,
                    <<change_pct, mover_type, mover>>,
                    <<quotes, top_n, movers_data>>,
                    <<copy, feed, results, report>>,
                    <<responses, unique_articles>>,
                    <<tables, fetched, fast_movers_data, fast_response>>,
                    <<picker_key, api_response, stock_data, analysis_results, dashboard_data, saved, picker_response>>>>)

\* lines 94-104: the success response
HandlerRespond ==
    /\ pc = "handler_respond"
    /\ response' = [statusCode |-> 200,
                    email_sent |-> EmailEnabled(environ),
                    stocks_analyzed |-> Len(TICKERS),
                    s3_saved |-> s3_success]
    /\ pc' = "handler_done"
    /\ UNCHANGED <<environ, effects, s3_success, email_success>>
    /\ (UNCHANGED <<<<sentiment_score, valuation, price_change_pct, combined_signal>>,
                    <<metrics, assessment>>,
                    <<text, text_score>>,
                    <<articles, analysis>>,
                    <<change_pct, mover_type, mover>>,
                    <<quotes, top_n, movers_data>>,
                    <<copy, feed, results, report>>,
                    <<responses, unique_articles>>,
                    <<tables, fetched, fast_movers_data, fast_response>>,
                    <<picker_key, api_response, stock_data, analysis_results, dashboard_data, saved, picker_response>>>>)

NextHandler ==
    \/ HandlerValidate
    \/ HandlerAnalyze
    \/ HandlerSave
    \/ HandlerEmail
    \/ HandlerRespond

SpecHandler == InitHandler /\ [][NextHandler]_vars

InitFast ==
    /\ pc = "fast"
    /\ IdlePicker
    /\ IdleCombine
    /\ IdleEvaluate
    /\ IdleScore
    /\ IdleAnalyze
    /\ IdleClassify
    /\ IdleMovers
    /\ IdleReport
    /\ IdleFetch
    /\ IdleHandler
    /\ tables \in [yahoo_gainers : ScrapedTables("gainer"), yahoo_losers : ScrapedTables("loser"),
                    finviz_gainers : ScrapedTables("gainer"), finviz_losers : ScrapedTables("loser")]
    /\ fetched = <<>>
    /\ fast_movers_data = [gainers |-> <<>>, losers |-> <<>>]
    /\ fast_response = NoResponse

\* line 298: movers_data = analyzer.get_yahoo_movers(top_n=10)
FastYahoo ==
    /\ pc = "fast"
    /\ fast_movers_data' = get_yahoo_movers(tables)
    /\ fetched' = Append(fetched, [source |-> Sources[1], data |-> fast_movers_data'])
    /\ pc' = "fast_fetched"
    /\ UNCHANGED <<tables, fast_response>>
    /\ (UNCHANGED <<<<sentiment_score, valuation, price_change_pct, combined_signal>>,
                    <<metrics, assessment>>,
                    <<text, text_score>>,
                    <<articles, analysis>>,
                    <<change_pct, mover_type, mover>>,
                    <<quotes, top_n, movers_data>>,
                    <<copy, feed, results, report>>,
                    <<responses, unique_articles>>,
                    <<environ, effects, s3_success, email_success, response>>,
                    <<picker_key, api_response, stock_data, analysis_results, dashboard_data, saved, picker_response>>>>)

\* mutant: Finviz is fetched whatever Yahoo returned
FastFinvizAlways ==
    /\ pc = "fast_fetched"
    /\ Len(fetched) = 1
    /\ fast_movers_data' = get_finviz_movers(tables)
    /\ fetched' = Append(fetched, [source |-> Sources[2], data |-> fast_movers_data'])
    /\ UNCHANGED <<pc, tables, fast_response>>
    /\ (UNCHANGED <<<<sentiment_score, valuation, price_change_pct, combined_signal>>,
                    <<metrics, assessment>>,
                    <<text, text_score>>,
                    <<articles, analysis>>,
                    <<change_pct, mover_type, mover>>,
                    <<quotes, top_n, movers_data>>,
                    <<copy, feed, results, report>>,
                    <<responses, unique_articles>>,
                    <<environ, effects, s3_success, email_success, response>>,
                    <<picker_key, api_response, stock_data, analysis_results, dashboard_data, saved, picker_response>>>>)

\* lines 300-302: the fallback
FastFinviz ==
    /\ pc = "fast_fetched"
    /\ Len(fetched) = 1
    /\ YahooFailed(fast_movers_data)
    /\ fast_movers_data' = get_finviz_movers(tables)
    /\ fetched' = Append(fetched, [source |-> Sources[2], data |-> fast_movers_data'])
    /\ UNCHANGED <<pc, tables, fast_response>>
    /\ (UNCHANGED <<<<sentiment_score, valuation, price_change_pct, combined_signal>>,
                    <<metrics, assessment>>,
                    <<text, text_score>>,
                    <<articles, analysis>>,
                    <<change_pct, mover_type, mover>>,
                    <<quotes, top_n, movers_data>>,
                    <<copy, feed, results, report>>,
                    <<responses, unique_articles>>,
                    <<environ, effects, s3_success, email_success, response>>,
                    <<picker_key, api_response, stock_data, analysis_results, dashboard_data, saved, picker_response>>>>)

\* lines 304-311: the response, once the fallback is decided
FastRespond ==
    /\ pc = "fast_fetched"
    /\ Len(fetched) = 2 \/ ~YahooFailed(fast_movers_data)
    /\ fast_response' = [statusCode |-> 200, body |-> fast_movers_data]
    /\ pc' = "fast_done"
    /\ UNCHANGED <<tables, fetched, fast_movers_data>>
    /\ (UNCHANGED <<<<sentiment_score, valuation, price_change_pct, combined_signal>>,
                    <<metrics, assessment>>,
                    <<text, text_score>>,
                    <<articles, analysis>>,
                    <<change_pct, mover_type, mover>>,
                    <<quotes, top_n, movers_data>>,
                    <<copy, feed, results, report>>,
                    <<responses, unique_articles>>,
                    <<environ, effects, s3_success, email_success, response>>,
                    <<picker_key, api_response, stock_data, analysis_results, dashboard_data, saved, picker_response>>>>)

NextFast == FastYahoo \/ FastFinviz \/ FastRespond

SpecFast == InitFast /\ [][NextFast]_vars

InitPicker ==
    /\ pc = "picker"
    /\ IdleCombine
    /\ IdleEvaluate
    /\ IdleScore
    /\ IdleAnalyze
    /\ IdleClassify
    /\ IdleMovers
    /\ IdleReport
    /\ IdleFetch
    /\ IdleHandler
    /\ IdleFast
    /\ picker_key \in KeyValues
    /\ api_response \in ApiResponses
    /\ stock_data = [gainers |-> <<>>, losers |-> <<>>, success |-> FALSE]
    /\ analysis_results = <<>>
    /\ dashboard_data = [gainers |-> <<>>, losers |-> <<>>]
    /\ saved = FALSE
    /\ picker_response = NoResponse

\* lines 149-160: the key check, then the selection of the stocks
PickerSelect ==
    /\ pc = "picker"
    /\ IF ~TruthyText(picker_key)
       THEN /\ picker_response' = ErrorResponse("ALPHAVANTAGE_KEY not set")
            /\ stock_data' = stock_data
            /\ pc' = "picker_done"
       ELSE /\ stock_data' = get_sp500_gainers_losers(api_response, PickerLimit)
            /\ picker_response' = picker_response
            /\ pc' = "picker_analyze"
    /\ UNCHANGED <<picker_key, api_response, analysis_results, dashboard_data, saved>>
    /\ (UNCHANGED <<<<sentiment_score, valuation, price_change_pct, combined_signal>>,
                    <<metrics, assessment>>,
                    <<text, text_score>>,
                    <<articles, analysis>>,
                    <<change_pct, mover_type, mover>>,
                    <<quotes, top_n, movers_data>>,
                    <<copy, feed, results, report>>,
                    <<responses, unique_articles>>,
                    <<environ, effects, s3_success, email_success, response>>,
                    <<tables, fetched, fast_movers_data, fast_response>>>>)

\* lines 162-185: analyse the selected stocks (the analysis of some may
\* raise) and build the dashboard data
PickerAnalyze ==
    /\ pc = "picker_analyze"
    /\ LET all_stocks == stock_data.gainers \o stock_data.losers
       IN  \E failing \in SUBSET Tickers(all_stocks) :
               /\ Cardinality(failing) <= MaxFailing
               /\ analysis_results' = analyze_stocks(all_stocks, failing)
    /\ dashboard_data' =
           [gainers |-> ResultsIn(analysis_results', stock_data.gainers),
            losers |-> ResultsIn(analysis_results', stock_data.losers),
            metadata |-> [total_stocks |-> Len(analysis_results'),
                          data_source |-> "Alpha Vantage",
                          auto_selected |-> stock_data.success]]
    /\ pc' = "picker_save"
    /\ UNCHANGED <<picker_key, api_response, stock_data, saved, picker_response>>
    /\ (UNCHANGED <<<<sentiment_score, valuation, price_change_pct, combined_signal>>,
                    <<metrics, assessment>>,
                    <<text, text_score>>,
                    <<articles, analysis>>,
                    <<change_pct, mover_type, mover>>,
                    <<quotes, top_n, movers_data>>,
                    <<copy, feed, results, report>>,
                    <<responses, unique_articles>>,
                    <<environ, effects, s3_success, email_success, response>>,
                    <<tables, fetched, fast_movers_data, fast_response>>>>)

\* lines 187-213: save_to_s3 returns True or False; 200 or 500
PickerSave ==
    /\ pc = "picker_save"
    /\ \E success \in BOOLEAN :
           /\ saved' = success
           /\ picker_response' =
                  IF success
                  THEN [statusCode |-> 200,
                        stocks_analyzed |-> Len(stock_data.gainers) + Len(stock_data.losers)]
                  ELSE ErrorResponse("Failed to save to S3")
    /\ pc' = "picker_done"
    /\ UNCHANGED <<picker_key, api_response, stock_data, analysis_results, dashboard_data>>
    /\ (UNCHANGED <<<<sentiment_score, valuation, price_change_pct, combined_signal>>,
                    <<metrics, assessment>>,
                    <<text, text_score>>,
                    <<articles, analysis>>,
                    <<change_pct, mover_type, mover>>,
                    <<quotes, top_n, movers_data>>,
                    <<copy, feed, results, report>>,
                    <<responses, unique_articles>>,
                    <<environ, effects, s3_success, email_success, response>>,
                    <<tables, fetched, fast_movers_data, fast_response>>>>)

NextPicker == PickerSelect \/ PickerAnalyze \/ PickerSave

SpecPicker == InitPicker /\ [][NextPicker]_vars

(***************************************************************************)
(* Properties of the signal combiner (checked under SpecCombine)           *)
(***************************************************************************)
CombineDone == pc = "combine_done"

\* C1: compositeScore is the sum of the sentiment contribution (+30 Bullish,
\* -30 Bearish, 0 Neutral), the momentum contribution (+40 Strong Upward,
\* +20 Upward, -40 Strong Downward, -20 Downward, 0 Flat/Unknown) and the
\* valuation contribution (+30 Attractive, -30 Concerns, 0 Mixed/Unknown);
\* it lies in [-100, 100]; (0.2, Attractive, 3.0) gives 100.
CompositeScoreIsWeightedSum ==
    CombineDone =>
        LET r == combined_signal
            sc == CASE r.sentiment = "Bullish" -> 30
                    [] r.sentiment = "Bearish" -> -30
                    [] r.sentiment = "Neutral" -> 0
            mc == CASE r.momentum = "Strong Upward" -> 40
                    [] r.momentum = "Upward" -> 20
                    [] r.momentum = "Strong Downward" -> -40
                    [] r.momentum = "Downward" -> -20
                    [] r.momentum \in {"Flat", "Unknown"} -> 0
            vc == CASE r.valuation = "Attractive" -> 30
                    [] r.valuation = "Concerns" -> -30
                    [] r.valuation \in {"Mixed", "Unknown"} -> 0
        IN  /\ r.valuation = valuation.overall
            /\ r.composite_score = sc + mc + vc
            /\ r.composite_score >= -100
            /\ r.composite_score <= 100
            /\ (sentiment_score = 20 /\ valuation.overall = "Attractive"
                    /\ price_change_pct = Some(300))
                => r.composite_score = 100

CompositeScoreExample ==
    /\ CombineDone
    /\ sentiment_score = 20
    /\ valuation.overall = "Attractive"
    /\ price_change_pct = Some(300)
    /\ combined_signal.composite_score = 100
    /\ combined_signal.signal = "STRONG BUY"

\* C2: the label is decided by the composite score: >= 60 STRONG BUY,
\* 30..59 BUY, 10..29 WEAK BUY, <= -60 STRONG SELL, -59..-30 SELL,
\* -29..-10 WEAK SELL, -9..9 NEUTRAL; one label per score.
LabelFollowsThresholds ==
    CombineDone =>
        LET c == combined_signal.composite_score
            l == combined_signal.signal
        IN  /\ (c >= 60) <=> (l = "STRONG BUY")
            /\ (c >= 30 /\ c < 60) <=> (l = "BUY")
            /\ (c >= 10 /\ c < 30) <=> (l = "WEAK BUY")
            /\ (c <= -60) <=> (l = "STRONG SELL")
            /\ (c <= -30 /\ c > -60) <=> (l = "SELL")
            /\ (c <= -10 /\ c > -30) <=> (l = "WEAK SELL")
            /\ (c > -10 /\ c < 10) <=> (l = "NEUTRAL")

LabelAtThreshold ==
    /\ CombineDone
    /\ combined_signal.composite_score = 60
    /\ combined_signal.signal = "STRONG BUY"

\* C3: sentiment is Bullish exactly when sentimentScore > 0.15, Bearish
\* exactly when sentimentScore < -0.15, Neutral otherwise; 0.15 and -0.15
\* are Neutral.
SentimentLabelThresholds ==
    CombineDone =>
        /\ (combined_signal.sentiment = "Bullish") <=> (sentiment_score > 15)
        /\ (combined_signal.sentiment = "Bearish") <=> (sentiment_score < -15)
        /\ (combined_signal.sentiment = "Neutral")
               <=> (sentiment_score >= -15 /\ sentiment_score <= 15)

SentimentBoundaryIsNeutral ==
    /\ CombineDone
    /\ sentiment_score = 15
    /\ combined_signal.sentiment = "Neutral"

\* C4: momentum is Strong Upward when momentumPct > 2.0, Upward when
\* 0.5 < momentumPct <= 2.0, Strong Downward when momentumPct < -2.0,
\* Downward when -2.0 <= momentumPct < -0.5, Flat when -0.5 <= momentumPct
\* <= 0.5, Unknown exactly when momentumPct is null; sentiment 0, valuation
\* Unknown and null momentum give score 0, NEUTRAL, momentum Unknown.
MomentumLabelThresholds ==
    CombineDone =>
        LET m == combined_signal.momentum
            p == price_change_pct
        IN  /\ (m = "Unknown") <=> (p = None)
            /\ p # None =>
                /\ (m = "Strong Upward") <=> (p[1] > 200)
                /\ (m = "Upward") <=> (p[1] > 50 /\ p[1] <= 200)
                /\ (m = "Strong Downward") <=> (p[1] < -200)
                /\ (m = "Downward") <=> (p[1] >= -200 /\ p[1] < -50)
                /\ (m = "Flat") <=> (p[1] >= -50 /\ p[1] <= 50)
            /\ (sentiment_score = 0 /\ valuation.overall = "Unknown" /\ p = None)
                => /\ combined_signal.composite_score = 0
                   /\ combined_signal.signal = "NEUTRAL"
                   /\ m = "Unknown"

NullMomentumExample ==
    /\ CombineDone
    /\ sentiment_score = 0
    /\ valuation.overall = "Unknown"
    /\ price_change_pct = None
    /\ combined_signal.momentum = "Unknown"
    /\ combined_signal.signal = "NEUTRAL"

\* A sentence names a label when the label is interpolated right before the
\* word that says which of the three labels it is.
SentimentTags == {" sentiment + ", " sentiment, "}
MomentumTags == {" momentum + ", " momentum, ", " momentum"}
ValuationTags == {" valuation", " valuation and "}
NamesLabel(sentence, label, tags) ==
    \E i \in 1..(Len(sentence) - 1) : sentence[i] = label /\ sentence[i + 1] \in tags

\* The secondary note the rules select, first match in the stated order.
ExpectedNotes(r) ==
    LET up == r.momentum \in {"Strong Upward", "Upward"}
        down == r.momentum \in {"Strong Downward", "Downward"}
    IN  IF r.sentiment = "Bullish" /\ up /\ r.valuation = "Attractive"
        THEN << <<"All indicators aligned - Strong opportunity">> >>
        ELSE IF r.sentiment = "Bearish" /\ down /\ r.valuation = "Concerns"
        THEN << <<"All indicators negative - High risk">> >>
        ELSE IF r.sentiment = "Bullish" /\ r.valuation = "Concerns"
        THEN << <<"Positive sentiment but overvalued - Exercise caution">> >>
        ELSE IF r.sentiment = "Bearish" /\ r.valuation = "Attractive"
        THEN << <<"Potential value opportunity despite negative sentiment">> >>
        ELSE IF up /\ r.sentiment = "Neutral"
        THEN << <<"Strong price momentum - Watch for sentiment shift">> >>
        ELSE <<>>

ReasoningShape(r) ==
    /\ Len(r.reasoning) \in {1, 2}
    /\ SubSeq(r.reasoning, 2, Len(r.reasoning)) = ExpectedNotes(r)

\* C9 as stated: reasoning starts with one summary sentence naming all three
\* labels (sentiment, momentum, valuation), followed by at most one secondary
\* note, the first matching rule; so reasoning has length 1 or 2.
SummaryNamesAllThreeLabels ==
    CombineDone =>
        LET r == combined_signal
        IN  /\ ReasoningShape(r)
            /\ NamesLabel(r.reasoning[1], r.sentiment, SentimentTags)
            /\ NamesLabel(r.reasoning[1], r.momentum, MomentumTags)
            /\ NamesLabel(r.reasoning[1], r.valuation, ValuationTags)

\* C9 amended: the summary sentence names the momentum and valuation labels
\* for every input, and names the sentiment label exactly when the signal is
\* neither WEAK BUY nor WEAK SELL; at most one secondary note follows, the
\* first matching rule; reasoning has length 1 or 2.
SummaryNamesLabelsExceptWeak ==
    CombineDone =>
        LET r == combined_signal
        IN  /\ ReasoningShape(r)
            /\ NamesLabel(r.reasoning[1], r.momentum, MomentumTags)
            /\ NamesLabel(r.reasoning[1], r.valuation, ValuationTags)
            /\ NamesLabel(r.reasoning[1], r.sentiment, SentimentTags)
                   <=> r.signal \notin {"WEAK BUY", "WEAK SELL"}

WeakBuyWithSecondaryNote ==
    /\ CombineDone
    /\ combined_signal.signal = "WEAK BUY"
    /\ Len(combined_signal.reasoning) = 2
    /\ ~NamesLabel(combined_signal.reasoning[1], combined_signal.sentiment, SentimentTags)

(***************************************************************************)
(* Properties of the fundamentals evaluator (checked under SpecEvaluate)   *)
(***************************************************************************)
EvaluateDone == pc = "evaluate_done"

Buckets == {"signals", "concerns", "strengths"}

\* The entries of a verdict, as (bucket, wording, number) triples.
Produced(a) ==
    UNION {{<<b, a[b][i].text, a[b][i].value>> : i \in 1..Len(a[b])} : b \in Buckets}

\* C5: overall = Attractive iff #strengths > #concerns + 1; Concerns iff
\* #concerns > #strengths + 1; otherwise Mixed.  {pe 10, d/e 0.3, margin 0.25}
\* is Attractive and {pe 35, d/e 3, margin 0.02} is Concerns.
OverallFollowsCounts ==
    EvaluateDone =>
        LET s == Len(assessment.strengths)
            c == Len(assessment.concerns)
            only3(pe, de, pm) ==
                /\ metrics.pe_ratio = Some(pe)
                /\ metrics.debt_to_equity = Some(de)
                /\ metrics.profit_margin = Some(pm)
                /\ metrics.peg_ratio = None
                /\ metrics.price_to_book = None
                /\ metrics.quarterly_revenue_growth = None
        IN  /\ (assessment.overall = "Attractive") <=> (s > c + 1)
            /\ (assessment.overall = "Concerns") <=> (c > s + 1)
            /\ (assessment.overall = "Mixed") <=> (s <= c + 1 /\ c <= s + 1)
            /\ only3(1000, 30, 25) => assessment.overall = "Attractive"
            /\ only3(3500, 300, 2) => assessment.overall = "Concerns"

AttractiveExample ==
    /\ EvaluateDone
    /\ metrics.pe_ratio = Some(1000)
    /\ metrics.debt_to_equity = Some(30)
    /\ metrics.profit_margin = Some(25)
    /\ metrics.peg_ratio = None
    /\ metrics.price_to_book = None
    /\ metrics.quarterly_revenue_growth = None
    /\ Len(assessment.strengths) = 2
    /\ Len(assessment.concerns) = 0
    /\ assessment.overall = "Attractive"

\* The rule table of the evaluator: the entries it assigns to value v of
\* metric k (at most one per metric).
RuleTable(k, v) ==
    CASE k = "pe_ratio" ->
            IF v < 1500 THEN {<<"signals", "Low P/E - potentially undervalued", v>>}
            ELSE IF v > 3000 THEN {<<"concerns", "High P/E - potentially overvalued", v>>}
            ELSE {<<"signals", "Moderate P/E - fairly valued", v>>}
      [] k = "peg_ratio" ->
            IF v > 0 /\ v < 100 THEN {<<"strengths", "PEG ratio - good value relative to growth", v>>}
            ELSE IF v > 0 /\ v > 200 THEN {<<"concerns", "PEG ratio - expensive relative to growth", v>>}
            ELSE {}
      [] k = "price_to_book" ->
            IF v < 100 THEN {<<"signals", "P/B ratio - trading below book value", v>>}
            ELSE IF v > 500 THEN {<<"concerns", "P/B ratio - trading at premium", v>>}
            ELSE {}
      [] k = "debt_to_equity" ->
            IF v > 200 THEN {<<"concerns", "High debt-to-equity", v>>}
            ELSE IF v < 50 THEN {<<"strengths", "Low debt-to-equity - strong balance sheet", v>>}
            ELSE {}
      [] k = "profit_margin" ->
            IF v > 20 THEN {<<"strengths", "Strong profit margin", v>>}
            ELSE IF v < 5 THEN {<<"concerns", "Low profit margin", v>>}
            ELSE {}
      [] k = "quarterly_revenue_growth" ->
            IF v > 15 THEN {<<"strengths", "Strong revenue growth", v>>}
            ELSE IF v < 0 THEN {<<"concerns", "Declining revenue", v>>}
            ELSE {}

TableEntries(m) ==
    UNION {IF m[k] = None THEN {} ELSE RuleTable(k, m[k][1]) : k \in MetricKeys}

\* C6: for every metric present with a numeric value (zero and negative
\* included) evaluate appends exactly the entry the rule table assigns to
\* that value; a rule contributes nothing only when its metric is absent.
EveryPresentMetricIsEvaluated ==
    EvaluateDone =>
        /\ Produced(assessment) = TableEntries(metrics)
        /\ Len(assessment.signals) + Len(assessment.concerns) + Len(assessment.strengths)
               = Cardinality(TableEntries(metrics))

\* C7: when at least one evaluated metric is present, overall is one of
\* Attractive, Concerns, Mixed (Unknown only when no metric is present).
UnknownOnlyWithoutMetrics ==
    EvaluateDone =>
        ((\E k \in MetricKeys : metrics[k] # None)
            => assessment.overall \in {"Attractive", "Concerns", "Mixed"})

MixedWithOneMetric ==
    /\ EvaluateDone
    /\ metrics.pe_ratio = Some(1000)
    /\ \A k \in MetricKeys \ {"pe_ratio"} : metrics[k] = None
    /\ assessment.overall = "Mixed"

\* C8: a P/E of exactly 15 and of exactly 30 each give the 'moderate P/E'
\* signal; 'low P/E' is appended only for P/E < 15 and 'high P/E' only for
\* P/E > 30.
PeBoundariesAreModerate ==
    EvaluateDone =>
        LET pe == metrics.pe_ratio
            out == Produced(assessment)
            low == \E e \in out : e[2] = "Low P/E - potentially undervalued"
            high == \E e \in out : e[2] = "High P/E - potentially overvalued"
        IN  /\ pe \in {Some(1500), Some(3000)}
                => /\ <<"signals", "Moderate P/E - fairly valued", pe[1]>> \in out
                   /\ ~low
                   /\ ~high
            /\ low => (pe # None /\ pe[1] < 1500)
            /\ high => (pe # None /\ pe[1] > 3000)

PeThirtyIsModerate ==
    /\ EvaluateDone
    /\ metrics.pe_ratio = Some(3000)
    /\ assessment.signals = <<[text |-> "Moderate P/E - fairly valued", value |-> 3000]>>

(***************************************************************************)
(* Properties of the lexicon scorer (checked under SpecScore)              *)
(***************************************************************************)
ScoreDone == pc = "score_done"

Range(seq) == {seq[i] : i \in 1..Len(seq)}

\* A lexicon word occurs in a text, ignoring case, when some stretch of the
\* text spells it once its letters are lower-cased.
Occurs(word, t) ==
    \E i \in 1..Len(t) : \E j \in i..Len(t) :
        /\ j - i + 1 = Len(word)
        /\ \A k \in 1..Len(word) : lower(<<t[i + k - 1]>>) = <<word[k]>>

posCount(t) == Cardinality({w \in Range(positive_words) : Occurs(w, t)})
negCount(t) == Cardinality({w \in Range(negative_words) : Occurs(w, t)})

\* C10: score(text) = (posCount - negCount) / (posCount + negCount), the
\* counts being the numbers of positive / negative lexicon words occurring
\* as substrings of the lower-cased text; 0 when no lexicon word matches,
\* also for the empty string; score('surge surge surge') > 0 and
\* score('plunge crash layoff') < 0.
ScoreIsNormalisedDifference ==
    ScoreDone =>
        LET p == posCount(text)
            n == negCount(text)
        IN  /\ text_score.den > 0
            /\ p + n > 0 => text_score.num * (p + n) = (p - n) * text_score.den
            /\ p + n = 0 => text_score.num = 0
            /\ text = <<>> => text_score.num = 0
            /\ text = SurgeSurgeSurge => text_score.num > 0
            /\ text = PlungeCrashLayoff => text_score.num < 0

\* "Surge" + "slow" + "PROFIT": two positive words, one of them in capitals,
\* and the negative word "low" inside "slow".
MixedCaseSubstringText ==
    /\ ScoreDone
    /\ text = <<"S", "u", "r", "g", "e", "s", "l", "o", "w", "P", "R", "O", "F", "I", "T">>
    /\ posCount(text) = 2
    /\ negCount(text) = 1
    /\ text_score = Fraction(1, 3)

\* C11: score(text) lies in [-1, 1] for every text; -1 is attained by a text
\* matching only negative words and +1 by a text matching only positive words.
ScoreInUnitRange ==
    ScoreDone =>
        /\ text_score.den > 0
        /\ text_score.num <= text_score.den
        /\ text_score.num >= 0 - text_score.den
        /\ (posCount(text) > 0 /\ negCount(text) = 0) => text_score.num = text_score.den
        /\ (negCount(text) > 0 /\ posCount(text) = 0) => text_score.num = 0 - text_score.den

NegativeOnlyTextScoresMinusOne ==
    /\ ScoreDone
    /\ text = PlungeCrashLayoff
    /\ posCount(text) = 0
    /\ negCount(text) = 3
    /\ text_score = Fraction(-3, 3)

(***************************************************************************)
(* Properties of analyze_ticker (checked under SpecAnalyze)                *)
(***************************************************************************)
AnalyzeDone == pc = "analyze_done"

\* The per-article scores of the input list, in fetch order.
ArticleScores == [i \in 1..Len(articles) |-> ScoreArticle(articles[i])]

\* C12: the reported score is the mean of the per-article scores (to the
\* three decimals the report keeps; 0 for an empty list); an article is
\* positive when its score > 0.2, negative when < -0.2, neutral when
\* -0.2 <= score <= 0.2; every article is in exactly one class and the three
\* counts are reported for every input list.
AnalysisReportsMeanAndClassCounts ==
    AnalyzeDone =>
        LET n == Len(articles)
            total == SumOf(ArticleScores)
            k == analysis.sentiment_score
            pos == {i \in 1..n : 5 * ArticleScores[i].num > ArticleScores[i].den}
            neg == {i \in 1..n : 5 * ArticleScores[i].num < 0 - ArticleScores[i].den}
        IN  /\ n = 0 => k.num = 0
            /\ n > 0 => Abs(2 * k.num * total.den * n - 2 * k.den * total.num)
                            <= k.den * total.den * n
            /\ {"positive_articles", "neutral_articles", "negative_articles"}
                   \subseteq DOMAIN analysis
            /\ analysis.positive_articles = Cardinality(pos)
            /\ analysis.negative_articles = Cardinality(neg)
            /\ analysis.neutral_articles = n - Cardinality(pos) - Cardinality(neg)

\* C13: at most 5 articles are retained, those of greatest absolute score in
\* descending order of absolute score; articles of equal absolute score are
\* in fetch order; no retained article has a smaller absolute score than a
\* dropped one.
AbsGreater(a, b) == Abs(a.num) * b.den > Abs(b.num) * a.den
AbsEqual(a, b) == Abs(a.num) * b.den = Abs(b.num) * a.den

TopFiveByAbsoluteScoreStable ==
    AnalyzeDone =>
        LET n == Len(articles)
            out == analysis.articles
            kept == {out[i].url : i \in 1..Len(out)}
        IN  /\ Len(out) <= 5
            /\ Len(out) = IF n < 5 THEN n ELSE 5
            /\ \A i \in 1..Len(out) :
                   /\ out[i].url \in 1..n
                   /\ out[i].title = articles[out[i].url].title
                   /\ out[i].sentiment = ArticleScores[out[i].url]
            /\ \A i \in 1..Len(out) : \A j \in (i + 1)..Len(out) :
                   /\ out[i].url # out[j].url
                   /\ ~AbsGreater(out[j].sentiment, out[i].sentiment)
                   /\ AbsEqual(out[i].sentiment, out[j].sentiment) => out[i].url < out[j].url
            /\ \A d \in (1..n) \ kept : \A i \in 1..Len(out) :
                   /\ ~AbsGreater(ArticleScores[d], out[i].sentiment)
                   /\ AbsEqual(ArticleScores[d], out[i].sentiment) => out[i].url < d

\* Six articles, a positive and a negative one of equal absolute score among
\* the retained five, and the dropped one tied with the last retained one.
SixArticlesTiedAtTheCut ==
    /\ AnalyzeDone
    /\ Len(articles) = 6
    /\ Len(analysis.articles) = 5
    /\ \E i \in 1..4 :
           /\ AbsEqual(analysis.articles[i].sentiment, analysis.articles[i + 1].sentiment)
           /\ analysis.articles[i].sentiment # analysis.articles[i + 1].sentiment
    /\ \E d \in 1..6 :
           /\ \A i \in 1..5 : analysis.articles[i].url # d
           /\ AbsEqual(ArticleScores[d], analysis.articles[5].sentiment)
           /\ analysis.articles[5].sentiment.num # 0

(***************************************************************************)
(* Further properties of the evaluator (SpecEvaluate) and of the combiner  *)
(* (SpecCombine)                                                           *)
(***************************************************************************)
\* C24: with no evaluated metric present the three buckets are empty and
\* overall is Mixed; overall is never Unknown; entries of the signals bucket
\* do not influence overall (it is Mixed whenever strengths and concerns
\* are both empty, whatever the signals).
EvaluateNeverReturnsUnknown ==
    EvaluateDone =>
        /\ assessment.overall # "Unknown"
        /\ (\A k \in MetricKeys : metrics[k] = None)
               => /\ assessment.strengths = <<>>
                  /\ assessment.concerns = <<>>
                  /\ assessment.signals = <<>>
                  /\ assessment.overall = "Mixed"
        /\ (assessment.strengths = <<>> /\ assessment.concerns = <<>>)
               => assessment.overall = "Mixed"
        /\ (Len(assessment.strengths) - Len(assessment.concerns) \in -1..1)
               => assessment.overall = "Mixed"

NoMetricIsMixed ==
    /\ EvaluateDone
    /\ \A k \in MetricKeys : metrics[k] = None
    /\ assessment.signals = <<>>
    /\ assessment.overall = "Mixed"

AlignedNote == <<"All indicators aligned - Strong opportunity">>
NegativeNote == <<"All indicators negative - High risk">>

\* the entries of the reasoning after the summary sentence
NotesOf(r) == {r.reasoning[i] : i \in 2..Len(r.reasoning)}

\* C25: when the 'all indicators aligned' note is appended the label is
\* STRONG BUY and the score is at least 80; when the 'all indicators
\* negative' note is appended the label is STRONG SELL and the score is at
\* most -80; the label is NEUTRAL exactly when the composite score is 0.
NoteIsConsistentWithLabel ==
    CombineDone =>
        /\ AlignedNote \in NotesOf(combined_signal)
               => /\ combined_signal.signal = "STRONG BUY"
                  /\ combined_signal.composite_score >= 80
        /\ NegativeNote \in NotesOf(combined_signal)
               => /\ combined_signal.signal = "STRONG SELL"
                  /\ combined_signal.composite_score <= -80
        /\ (combined_signal.signal = "NEUTRAL") <=> (combined_signal.composite_score = 0)

AlignedNoteAtEighty ==
    /\ CombineDone
    /\ AlignedNote \in NotesOf(combined_signal)
    /\ combined_signal.composite_score = 80
    /\ combined_signal.signal = "STRONG BUY"

(***************************************************************************)
(* Properties of the mover classifier (checked under SpecClassify)         *)
(***************************************************************************)
ClassifyDone == pc = "classify_done"

\* C14: a gainer is OVERBOUGHT above 10, STRONG BUY in (5, 10], BUY in
\* (3, 5], WEAK BUY in (1.5, 3], else NEUTRAL; a loser is OVERSOLD below -10,
\* STRONG SELL in [-10, -5), SELL in [-5, -3), WEAK SELL in [-3, -1.5), else
\* NEUTRAL; 12 gainer is OVERBOUGHT, -12 loser OVERSOLD, 0.5 gainer NEUTRAL;
\* both copies of the classifier agree.
SignalTable(c, kind) ==
    IF kind = "gainer"
    THEN CASE c > 1000 -> "OVERBOUGHT"
           [] c > 500 /\ c <= 1000 -> "STRONG BUY"
           [] c > 300 /\ c <= 500 -> "BUY"
           [] c > 150 /\ c <= 300 -> "WEAK BUY"
           [] c <= 150 -> "NEUTRAL"
    ELSE CASE c < -1000 -> "OVERSOLD"
           [] c < -500 /\ c >= -1000 -> "STRONG SELL"
           [] c < -300 /\ c >= -500 -> "SELL"
           [] c < -150 /\ c >= -300 -> "WEAK SELL"
           [] c >= -150 -> "NEUTRAL"

MoverSignalThresholds ==
    ClassifyDone =>
        /\ mover.fast_signal = SignalTable(change_pct, mover_type)
        /\ mover.sp500_signal = SignalTable(change_pct, mover_type)
        /\ mover.fast_signal = mover.sp500_signal
        /\ (change_pct = 1200 /\ mover_type = "gainer") => mover.fast_signal = "OVERBOUGHT"
        /\ (change_pct = -1200 /\ mover_type = "loser") => mover.fast_signal = "OVERSOLD"
        /\ (change_pct = 50 /\ mover_type = "gainer") => mover.fast_signal = "NEUTRAL"

LoserAtWeakSellBoundary ==
    /\ ClassifyDone
    /\ change_pct = -150
    /\ mover_type = "loser"
    /\ mover.fast_signal = "NEUTRAL"
    /\ mover.sp500_signal = "NEUTRAL"

\* C15: the sentiment label depends only on changePct: Very Bullish above 3,
\* Bullish in (1, 3], Slightly Bullish in (0, 1], Slightly Bearish in
\* (-1, 0], Bearish in (-3, -1], Very Bearish at or below -3; exactly 0 is
\* Slightly Bearish and exactly -3 is Very Bearish.
SentimentTable(c) ==
    CASE c > 300 -> "Very Bullish"
      [] c > 100 /\ c <= 300 -> "Bullish"
      [] c > 0 /\ c <= 100 -> "Slightly Bullish"
      [] c > -100 /\ c <= 0 -> "Slightly Bearish"
      [] c > -300 /\ c <= -100 -> "Bearish"
      [] c <= -300 -> "Very Bearish"

MoverSentimentThresholds ==
    ClassifyDone =>
        /\ mover.fast_sentiment = SentimentTable(change_pct)
        /\ mover.sp500_sentiment = SentimentTable(change_pct)
        /\ change_pct = 0 => mover.fast_sentiment = "Slightly Bearish"
        /\ change_pct = -300 => mover.fast_sentiment = "Very Bearish"

ZeroChangeIsSlightlyBearish ==
    /\ ClassifyDone
    /\ change_pct = 0
    /\ mover_type = "loser"
    /\ mover.fast_sentiment = "Slightly Bearish"
    /\ mover.sp500_sentiment = "Slightly Bearish"

(***************************************************************************)
(* Properties of get_top_gainers_losers (checked under SpecMovers)         *)
(***************************************************************************)
MoversDone == pc = "movers_done"

Min(a, b) == IF a < b THEN a ELSE b

\* the quotes that a list of the result holds, as (ticker, change_pct) pairs
Picked(list) == {<<list[i].ticker, list[i].change_pct>> : i \in 1..Len(list)}
Fetched == {<<quotes[i].ticker, quotes[i].change_pct>> : i \in 1..Len(quotes)}

ListsCarryTheirOwnSignal ==
    MoversDone =>
        /\ \A i \in 1..Len(movers_data.gainers) :
               movers_data.gainers[i].signal
                   = SignalTable(movers_data.gainers[i].change_pct, "gainer")
        /\ \A i \in 1..Len(movers_data.losers) :
               movers_data.losers[i].signal
                   = SignalTable(movers_data.losers[i].change_pct, "loser")

(***************************************************************************)
(* Properties of the report pipeline (checked under SpecReport)            *)
(***************************************************************************)
ReportDone == pc = "report_done"
Analyzed == pc \in {"format", "report_done", "report_raised"}

\* C16: no operation of the pipeline raises for the absent representations
\* (a ticker without articles, metrics that are missing or null, no
\* momentum): scoring, analysis, evaluation, combination and the ordering
\* and rendering of the records all complete normally.
NoPipelineOperationRaises ==
    /\ pc # "report_raised"
    /\ report.raised = None

\* position of a record's ticker in the input order
InputPosition(r) == CHOOSE i \in 1..Len(TICKERS) : TICKERS[i].ticker = r.ticker

\* C17: the record sequence returned by generate_report is in descending
\* order of sentiment score, records of equal score are in input order, and
\* ordering it again leaves it as it is.
ReturnedRecordsOrderedByScore ==
    ReportDone =>
        /\ \A i, j \in 1..Len(results) :
               i < j => ~FracLess(SortKey(results[i]), SortKey(results[j]))
        /\ \A i, j \in 1..Len(results) :
               (i < j /\ ~FracLess(SortKey(results[j]), SortKey(results[i])))
                   => InputPosition(results[i]) < InputPosition(results[j])
        /\ SortByScoreDesc(results) = results

\* C18: the report aggregator leaves the sequence passed to it as it was:
\* same order and contents after the call as before.
AggregatorLeavesInputUnchanged ==
    [][pc = "format" => results' = results]_vars

\* C19: in every copy, the combined signal of a ticker record carries a
\* momentum label and a composite score, its sentiment label follows the
\* thresholds 0.15 and -0.15, and both copies of the combiner give the same
\* sentiment label for the record's score.
CombinedSignalIsMomentumInclusive ==
    Analyzed =>
        \A i \in 1..Len(results) :
            "combined_signal" \in DOMAIN results[i] =>
                LET signal == results[i].combined_signal
                    s == Hundredths(results[i].sentiment_score)
                IN  /\ {"momentum", "composite_score"} \subseteq DOMAIN signal
                    /\ (signal.sentiment = "Bullish") <=> (s > 15)
                    /\ (signal.sentiment = "Bearish") <=> (s < -15)
                    /\ LegacySentimentLabel(s) = SentimentLabel(s)

\* C22: in the momentum-inclusive pipeline the metrics mapping has no price
\* change entry and the momentum read from it defaults to 0: for every ticker
\* the momentum label is Flat and contributes 0, the composite score is one
\* of -60, -30, 0, 30, 60, and WEAK BUY and WEAK SELL are never produced.
PipelineMomentumIsAlwaysFlat ==
    (ReportDone /\ copy = "lambda-package") =>
        \A i \in 1..Len(results) :
            "combined_signal" \in DOMAIN results[i] =>
                LET signal == results[i].combined_signal
                IN  /\ "price_change_pct" \notin DOMAIN feed[i].fundamentals[1]
                    /\ signal.momentum = "Flat"
                    /\ signal.momentum_pct = None
                    /\ signal.composite_score
                           = SentimentContribution(signal.sentiment)
                             + ValuationContribution(signal.valuation)
                    /\ signal.composite_score \in {-60, -30, 0, 30, 60}
                    /\ signal.signal \notin {"WEAK BUY", "WEAK SELL"}

BullishAttractiveTickerIsFlat ==
    /\ ReportDone
    /\ copy = "lambda-package"
    /\ Len(results) = 2
    /\ "combined_signal" \in DOMAIN results[2]
    /\ results[2].combined_signal.sentiment = "Bullish"
    /\ results[2].combined_signal.valuation = "Attractive"
    /\ results[2].combined_signal.momentum = "Flat"
    /\ results[2].combined_signal.composite_score = 60
    /\ results[2].combined_signal.signal = "STRONG BUY"

(***************************************************************************)
(* Properties of fetch_news (checked under SpecFetch)                      *)
(***************************************************************************)
FetchDone == pc = "fetch_done"

\* what the requests that answered 'ok' returned, ticker term first
Obtained ==
    (IF responses[1].status = "ok" THEN responses[1].articles ELSE <<>>)
    \o (IF responses[2].status = "ok" THEN responses[2].articles ELSE <<>>)

HasUrl(a) == "url" \in DOMAIN a /\ a.url # <<>>

\* position of a returned article among the obtained ones
ObtainedAt(a) == CHOOSE i \in 1..Len(Obtained) : Obtained[i] = a

\* C23: the articles of the ticker term come before those of the company
\* term, and a failed or non-ok request does not discard the articles of the
\* other; the returned list has no two articles with the same URL, no
\* article without a URL, the first occurrence of each URL in fetch order,
\* and at most 20 entries.
FetchedNewsIsDeduplicated ==
    FetchDone =>
        LET r == unique_articles
        IN  /\ Len(r) <= 20
            /\ \A i \in 1..Len(r) : r[i] \in Range(Obtained) /\ HasUrl(r[i])
            /\ \A i, j \in 1..Len(r) :
                   i < j => r[i].url # r[j].url /\ ObtainedAt(r[i]) < ObtainedAt(r[j])
            /\ \A i \in 1..Len(r) : \A k \in 1..Len(Obtained) :
                   (HasUrl(Obtained[k]) /\ Obtained[k].url = r[i].url)
                       => ObtainedAt(r[i]) <= k
            /\ \A k \in 1..Len(Obtained) :
                   (HasUrl(Obtained[k]) /\ \A i \in 1..Len(r) : r[i].url # Obtained[k].url)
                       => (Len(r) = 20 /\ ObtainedAt(r[20]) < k)

\* the ticker request raises; the company request returns a URL twice
FailedTermKeepsOtherTermsArticles ==
    /\ FetchDone
    /\ responses[1].status = "raise"
    /\ responses[2].status = "ok"
    /\ Len(responses[2].articles) = 3
    /\ HasUrl(responses[2].articles[1])
    /\ ~HasUrl(responses[2].articles[2])
    /\ HasUrl(responses[2].articles[3])
    /\ responses[2].articles[1].url = responses[2].articles[3].url
    /\ Len(unique_articles) = 1
    /\ unique_articles[1].title = <<2, 1>>

(***************************************************************************)
(* Properties of the scheduled report handler (checked under SpecHandler)  *)
(***************************************************************************)
HandlerDone == pc = "handler_done"

Missing(v) == v = None \/ v = Some(<<>>)

\* the flag as configured: unset, or 'true' in any letter case
EnabledFlag ==
    \/ environ.EMAIL_ENABLED = None
    \/ environ.EMAIL_ENABLED \in {Some(<<"t", "r", "u", "e">>), Some(<<"T", "r", "u", "e">>)}

InvalidConfiguration ==
    \/ Missing(environ.NEWSAPI_KEY)
    \/ /\ EnabledFlag
       /\ \/ Missing(environ.EMAIL_FROM)
          \/ Missing(environ.EMAIL_TO)
          \/ Missing(environ.EMAIL_PASSWORD)

Calls == [i \in 1..Len(effects) |-> effects[i].call]

\* C26: with NEWSAPI_KEY missing, or email enabled and sender, recipient or
\* password missing, the handler returns 500 and makes no call (analysis,
\* S3 save, email); when validation and analysis succeed it saves to S3
\* before it sends email and returns 200 whatever the save and the send
\* returned, with s3_saved the save result and email_sent the enabled flag.
HandlerValidatesThenSavesThenSends ==
    /\ InvalidConfiguration
           => /\ effects = <<>>
              /\ HandlerDone => response.statusCode = 500
    /\ (HandlerDone /\ ~InvalidConfiguration /\ effects[1].ok)
           => /\ Calls = IF EnabledFlag
                         THEN <<"generate_report", "save_to_s3", "send_email_report">>
                         ELSE <<"generate_report", "save_to_s3">>
              /\ response.statusCode = 200
              /\ response.s3_saved = effects[2].ok
              /\ response.email_sent = EnabledFlag

FailedSendStillReportedAsSent ==
    /\ HandlerDone
    /\ Len(effects) = 3
    /\ ~effects[2].ok
    /\ ~effects[3].ok
    /\ response.statusCode = 200
    /\ response.s3_saved = FALSE
    /\ response.email_sent = TRUE

(***************************************************************************)
(* Properties of the fast movers handler (checked under SpecFast)          *)
(***************************************************************************)
FastDone == pc = "fast_done"

\* C27: Yahoo is fetched first; Finviz is fetched only after Yahoo returned
\* an empty gainers or losers list, and then the body is the Finviz result;
\* when Yahoo returns both lists non-empty Finviz is never fetched; the
\* handler returns status 200 in every case, also when both sources fail.
YahooFirstThenFinvizFallback ==
    /\ Len(fetched) <= 2
    /\ Len(fetched) >= 1 => fetched[1].source = "Yahoo Finance"
    /\ Len(fetched) = 2
           => /\ fetched[2].source = "Finviz"
              /\ fetched[1].data.gainers = <<>> \/ fetched[1].data.losers = <<>>
    /\ FastDone
           => /\ fast_response.statusCode = 200
              /\ fast_response.body = fetched[Len(fetched)].data
              /\ (fetched[1].data.gainers # <<>> /\ fetched[1].data.losers # <<>>)
                     <=> Len(fetched) = 1

BothSourcesFailStill200 ==
    /\ FastDone
    /\ Len(fetched) = 2
    /\ tables = [yahoo_gainers |-> <<>>, yahoo_losers |-> <<>>, finviz_gainers |-> <<>>, finviz_losers |-> <<>>]
    /\ fast_response.statusCode = 200
    /\ fast_response.body.gainers = <<>>
    /\ fast_response.body.losers = <<>>

\* the stocks of a scraped table whose percentage was parsed
ParsedTickers(stocks) ==
    {stocks[i].ticker : i \in {j \in 1..Len(stocks) : stocks[j].change_pct # None}}

\* the tickers of the entries of a returned list that carry both labels
LabelledTickers(list) ==
    {list[i].ticker : i \in {j \in 1..Len(list) : {"signal", "sentiment"} \subseteq DOMAIN list[j]}}

\* C28: a scraped row whose change percentage could not be parsed affects
\* only that row: every other scraped stock is returned with its signal and
\* sentiment labels, by get_yahoo_movers and by get_finviz_movers.
UnparsedRowAffectsOnlyItself ==
    \A i \in 1..Len(fetched) :
        LET gainers == IF i = 1 THEN tables.yahoo_gainers ELSE tables.finviz_gainers
            losers == IF i = 1 THEN tables.yahoo_losers ELSE tables.finviz_losers
        IN  /\ ParsedTickers(gainers) \subseteq LabelledTickers(fetched[i].data.gainers)
            /\ ParsedTickers(losers) \subseteq LabelledTickers(fetched[i].data.losers)

(***************************************************************************)
(* Properties of the dynamic stock picker (checked under SpecPicker)       *)
(***************************************************************************)
PickerDone == pc = "picker_done"

\* the request raised, or its response lacks one of the two lists
RequestFailed ==
    \/ api_response.raised
    \/ "top_gainers" \notin DOMAIN api_response
    \/ "top_losers" \notin DOMAIN api_response

FallbackGainers == {"NVDA", "MSFT", "AAPL", "GOOGL", "META"}
FallbackLosers == {"TSLA", "AMD", "INTC", "DIS", "NFLX"}

\* C29: when the request raises or its response lacks a list, the picker
\* uses the fixed fallback lists (five gainers, five losers) with success
\* false; the handler still analyses them and publishes them with
\* auto_selected false; the handler returns 200 exactly when the S3 save
\* succeeded, and 500 when the key is missing or the save fails.
FallbackIsAnalysedAndPublished ==
    /\ (RequestFailed /\ pc \in {"picker_analyze", "picker_save"})
           => /\ stock_data.success = FALSE
              /\ Len(stock_data.gainers) = 5
              /\ Len(stock_data.losers) = 5
              /\ Tickers(stock_data.gainers) = FallbackGainers
              /\ Tickers(stock_data.losers) = FallbackLosers
    /\ (RequestFailed /\ pc = "picker_save")
           => /\ dashboard_data.metadata.auto_selected = FALSE
              /\ Tickers(dashboard_data.gainers) \subseteq FallbackGainers
              /\ Tickers(dashboard_data.losers) \subseteq FallbackLosers
              /\ Len(dashboard_data.gainers) + Len(dashboard_data.losers)
                     >= 10 - MaxFailing
    /\ PickerDone
           => /\ picker_response.statusCode \in {200, 500}
              /\ (picker_response.statusCode = 200) <=> saved
              /\ (picker_key = None \/ picker_key = Some(<<>>))
                     => picker_response.statusCode = 500

FallbackPublishedWith200 ==
    /\ PickerDone
    /\ api_response.raised
    /\ saved
    /\ picker_response.statusCode = 200
    /\ stock_data.success = FALSE
    /\ dashboard_data.metadata.auto_selected = FALSE
    /\ Len(dashboard_data.gainers) = 5
    /\ Len(dashboard_data.losers) = 5

====
